---- MODULE Spec2Model ----
(***************************************************************************)
(* A model of the reconciliation engine of github-api-sync: the Merkle     *)
(* tree builder and differ (src/src/tree.ts), the three-way merge          *)
(* (src/unnamed/part_002), the GitHub client calls the pass relies on      *)
(* (src/unnamed/part_001) and the reconciliation pass itself,              *)
(* GithubApiSyncPlugin.checkout (src/src/main.ts, the class that starts at *)
(* line 917).                                                              *)
(*                                                                         *)
(* Conventions.  A path is the sequence of its "/"-separated segments, a   *)
(* segment is a small integer.  File data is a sequence of bytes (small    *)
(* integers).  A JavaScript string that is hashed is a sequence of         *)
(* integers in which the separators are negative numbers.  null and the    *)
(* empty string of lastSyncedAt / currentCommit are 0 (both are falsy in   *)
(* the source), a commit oid is the index of the commit in the history of  *)
(* the branch.                                                             *)
(***************************************************************************)
EXTENDS Integers, Sequences, FiniteSets, TLC

(***************************************************************************)
(* Bounds of the model.                                                    *)
(***************************************************************************)
\* number of checkout calls that are issued
MaxCalls == 2
\* number of steps of the environment (user edits, pushes of other clients)
MaxEnv == 1
\* largest value of the clock
MaxClock == 6
\* largest number of commits on the branch
MaxCommits == 3

(***************************************************************************)
(* The universe of paths and of file data.                                 *)
(***************************************************************************)
PathA == <<1>>
PathB == <<2>>
Paths == {PathA, PathB}

\* the texts "ab", "xb", "ay", "yb" and an oversized file "abab"
TextAB == <<1, 2>>
TextXB == <<3, 2>>
TextAY == <<1, 4>>
TextYB == <<4, 2>>
TextBig == <<1, 2, 1, 2>>

\* settings.maxFileSizeMB * 1024 * 1024, scaled to the sizes of the model
maxBytes == 3

Strategies == {"pull", "push", "bidirectional"}

(***************************************************************************)
(* Generic helpers.                                                        *)
(***************************************************************************)
Range(s) == {s[i] : i \in 1..Len(s)}

Min(a, b) == IF a < b THEN a ELSE b

Max(a, b) == IF a < b THEN b ELSE a

RECURSIVE Concat(_)
\* the concatenation of a sequence of sequences
Concat(ss) == IF ss = <<>> THEN <<>> ELSE Head(ss) \o Concat(Tail(ss))

\* lexicographic order of two integer sequences, a proper prefix first
RECURSIVE SeqLess(_, _)
SeqLess(a, b) ==
  IF b = <<>> THEN FALSE
  ELSE IF a = <<>> THEN TRUE
  ELSE IF Head(a) # Head(b) THEN Head(a) < Head(b)
  ELSE SeqLess(Tail(a), Tail(b))

\* a comparison that returns 0 for every pair
localeCompareNever(a, b) == FALSE

\* a.path.localeCompare(b.path) < 0
localeCompareLess(a, b) == SeqLess(a, b)

\* Array.prototype.sort is stable: insertion keeps the order of equal keys.
\* sort((a, b) => a.path.localeCompare(b.path)) on a list of nodes
RECURSIVE InsertByPath(_, _)
InsertByPath(x, s) ==
  IF s = <<>> THEN <<x>>
  ELSE LET n == Len(s)
       IN IF localeCompareLess(x.path, s[n].path)
          THEN InsertByPath(x, SubSeq(s, 1, n - 1)) \o <<s[n]>>
          ELSE s \o <<x>>

RECURSIVE SortByPath(_)
SortByPath(s) ==
  IF s = <<>> THEN <<>>
  ELSE LET n == Len(s)
       IN InsertByPath(s[n], SortByPath(SubSeq(s, 1, n - 1)))

\* sort((a, b) => a.split("/").length - b.split("/").length) on a list of paths
RECURSIVE InsertByDepth(_, _)
InsertByDepth(x, s) ==
  IF s = <<>> THEN <<x>>
  ELSE LET n == Len(s)
       IN IF Len(x) < Len(s[n])
          THEN InsertByDepth(x, SubSeq(s, 1, n - 1)) \o <<s[n]>>
          ELSE s \o <<x>>

RECURSIVE SortByDepth(_)
SortByDepth(s) ==
  IF s = <<>> THEN <<>>
  ELSE LET n == Len(s)
       IN InsertByDepth(s[n], SortByDepth(SubSeq(s, 1, n - 1)))

RECURSIVE SetToSeq(_)
\* the elements of a set of paths, listed in path order
SetToSeq(S) ==
  IF S = {} THEN <<>>
  ELSE LET m == CHOOSE x \in S : \A y \in S : x = y \/ SeqLess(x, y)
       IN <<m>> \o SetToSeq(S \ {m})

(***************************************************************************)
(* Hashing (src/src/tree.ts).  SHA-1 is modelled as an injection: the      *)
(* digest of an input is the input behind a marker, so that two digests    *)
(* are equal exactly when the inputs are and no digest is the empty hash.  *)
(***************************************************************************)
ShaMark == 0 - 9
Colon == 0 - 1
Bar == 0 - 2
Slash == 0 - 3
Nul == 0 - 4

sha1Hex(input) == <<ShaMark>> \o input

\* the header "blob <byteLength>\x00" followed by the bytes
gitBlobSha1Hex(data) == sha1Hex(<<Len(data), Nul>> \o data)

RECURSIVE PathString(_)
\* the segments of a path joined by "/"
PathString(path) ==
  IF Len(path) <= 1 THEN path
  ELSE <<Head(path), Slash>> \o PathString(Tail(path))

(***************************************************************************)
(* MerkleTreeBuilder (src/src/tree.ts).  A node is a record with the       *)
(* fields path, hash, children and leaf; leaf is TRUE where the source has *)
(* children === null.                                                      *)
(***************************************************************************)
FileNode(path) == [path |-> path, hash |-> <<>>, children |-> <<>>, leaf |-> TRUE]

DirNode(path) == [path |-> path, hash |-> <<>>, children |-> <<>>, leaf |-> FALSE]

\* children.find((v) => v.path === path): the index of the first match, or 0
FindChild(children, path) ==
  IF \E i \in 1..Len(children) : children[i].path = path
  THEN CHOOSE i \in 1..Len(children) :
         /\ children[i].path = path
         /\ \A j \in 1..(i - 1) : children[j].path # path
  ELSE 0

RECURSIVE JoinItems(_)
\* items.join("|")
JoinItems(items) ==
  IF items = <<>> THEN <<>>
  ELSE IF Len(items) = 1 THEN Head(items)
  ELSE Head(items) \o <<Bar>> \o JoinItems(Tail(items))

\* a directory hash that does not depend on the children
calcDirHashOfNothing(node) == sha1Hex(<<>>)

calcDirHash(node) ==
  LET sorted == SortByPath(node.children)
      items == [i \in 1..Len(sorted) |->
                  PathString(sorted[i].path) \o <<Colon>> \o sorted[i].hash]
  IN sha1Hex(JoinItems(items))

RECURSIVE appendChild(_, _)
\* path is the part of the file path below node
appendChild(path, node) ==
  IF Len(path) = 1
  THEN [node EXCEPT !.children = Append(@, FileNode(node.path \o path))]
  ELSE LET childFullPath == node.path \o <<Head(path)>>
           found == FindChild(node.children, childFullPath)
       IN IF found = 0 \/ node.children[found].leaf
          THEN [node EXCEPT !.children =
                  Append(@, appendChild(Tail(path), DirNode(childFullPath)))]
          ELSE [node EXCEPT !.children[found] = appendChild(Tail(path), @)]

RECURSIVE AppendAll(_, _)
\* dirDepthSorted.map((path) => appendChild(path, tree)), in list order
AppendAll(files, tree) ==
  IF files = <<>> THEN tree
  ELSE AppendAll(Tail(files), appendChild(Head(files), tree))

RECURSIVE calcHashRecursive(_, _)
calcHashRecursive(node, getHashFunc) ==
  IF node.leaf
  THEN IF Len(node.hash) = 0
       THEN [node EXCEPT !.hash = getHashFunc[node.path]]
       ELSE node
  ELSE LET sorted == SortByPath(node.children)
           hashed == [i \in 1..Len(sorted) |->
                        calcHashRecursive(sorted[i], getHashFunc)]
           withChildren == [node EXCEPT !.children = hashed]
       IN [withChildren EXCEPT !.hash = calcDirHash(withChildren)]

\* files is the list of paths, getHashFunc a function from path to hash
buildTree(files, getHashFunc) ==
  LET dirDepthSorted == SortByDepth(files)
      tree == AppendAll(dirDepthSorted, DirNode(<<>>))
  IN calcHashRecursive(tree, getHashFunc)

(***************************************************************************)
(* MerkleDiff (src/src/tree.ts).                                           *)
(***************************************************************************)
NoDifferences == [left |-> <<>>, both |-> <<>>, right |-> <<>>]

\* the right-only paths found in a nested call are dropped
AddDifferencesDropRight(d, e) ==
  [left |-> d.left \o e.left, both |-> d.both \o e.both, right |-> d.right]

AddDifferences(d, e) ==
  [left |-> d.left \o e.left, both |-> d.both \o e.both, right |-> d.right \o e.right]

\* leftChild.children || []
ChildrenOrEmpty(node) == IF node.leaf THEN <<>> ELSE node.children

RECURSIVE compareRecursive(_, _)
compareRecursive(leftChildren, rightChildren) ==
  LET compared == {leftChildren[i].path : i \in 1..Len(leftChildren)}
      leftStep(leftChild) ==
        LET f == FindChild(rightChildren, leftChild.path)
        IN IF f = 0
           THEN IF ~leftChild.leaf
                THEN compareRecursive(leftChild.children, <<>>)
                ELSE [NoDifferences EXCEPT !.left = <<leftChild.path>>]
           ELSE LET found == rightChildren[f]
                IN IF leftChild.hash = found.hash
                   THEN NoDifferences
                   ELSE AddDifferences(
                          IF leftChild.leaf \/ found.leaf
                          THEN [NoDifferences EXCEPT !.both = <<leftChild.path>>]
                          ELSE NoDifferences,
                          compareRecursive(ChildrenOrEmpty(leftChild),
                                           ChildrenOrEmpty(found)))
      rightStep(rightChild) ==
        IF rightChild.path \in compared
        THEN NoDifferences
        ELSE LET f == FindChild(leftChildren, rightChild.path)
             IN IF f = 0
                THEN IF ~rightChild.leaf
                     THEN compareRecursive(<<>>, rightChild.children)
                     ELSE [NoDifferences EXCEPT !.right = <<rightChild.path>>]
                ELSE LET found == leftChildren[f]
                     IN IF rightChild.hash = found.hash
                        THEN NoDifferences
                        ELSE AddDifferences(
                               IF rightChild.leaf \/ found.leaf
                               THEN [NoDifferences EXCEPT !.both = <<rightChild.path>>]
                               ELSE NoDifferences,
                               compareRecursive(ChildrenOrEmpty(found),
                                                ChildrenOrEmpty(rightChild)))
      leftLoop[i \in 0..Len(leftChildren)] ==
        IF i = 0 THEN NoDifferences
        ELSE AddDifferences(leftLoop[i - 1], leftStep(leftChildren[i]))
      rightLoop[i \in 0..Len(rightChildren)] ==
        IF i = 0 THEN leftLoop[Len(leftChildren)]
        ELSE AddDifferences(rightLoop[i - 1], rightStep(rightChildren[i]))
  IN rightLoop[Len(rightChildren)]

\* every file of either side reported, no node of the two sides matched
findDifferencesUnpruned(left, right) ==
  AddDifferences(compareRecursive(<<left>>, <<>>), compareRecursive(<<>>, <<right>>))

findDifferences(left, right) == compareRecursive(<<left>>, <<right>>)

(***************************************************************************)
(* Text conversions used by the conflict task (src/src/main.ts 1269-1299)  *)
(* and by the upload task (src/src/utils.ts encodeBase64).  A byte that is *)
(* no valid UTF-8 decodes to U+FFFD, which encodes to three bytes.         *)
(***************************************************************************)
InvalidByte == 255
ReplacementChar == 65533
ReplacementBytes == <<239, 191, 189>>

RECURSIVE TextDecode(_)
\* new TextDecoder().decode(bytes)
TextDecode(bytes) ==
  IF bytes = <<>> THEN <<>>
  ELSE IF Len(bytes) >= 3 /\ SubSeq(bytes, 1, 3) = ReplacementBytes
  THEN <<ReplacementChar>> \o TextDecode(SubSeq(bytes, 4, Len(bytes)))
  ELSE IF Head(bytes) >= 128
  THEN <<ReplacementChar>> \o TextDecode(Tail(bytes))
  ELSE <<Head(bytes)>> \o TextDecode(Tail(bytes))

RECURSIVE TextEncode(_)
\* new TextEncoder().encode(text)
TextEncode(text) ==
  IF text = <<>> THEN <<>>
  ELSE (IF Head(text) = ReplacementChar THEN ReplacementBytes ELSE <<Head(text)>>)
       \o TextEncode(Tail(text))

\* base64 is a bijection between byte strings and their encodings; an
\* encoded string is the bytes shifted out of the range of bytes
Base64Shift == 1000

encodeBase64(data) == [i \in 1..Len(data) |-> data[i] + Base64Shift]

\* the decoding GitHub applies to the contents of an addition
DecodeBase64(contents) == [i \in 1..Len(contents) |-> contents[i] - Base64Shift]

(***************************************************************************)
(* diffChars of the package "diff", which is no part of the repository:    *)
(* a shortest edit script from one text to the other, as a list of parts   *)
(* {value, added, removed} in which a removed part comes before the added  *)
(* part that replaces it.  Which shortest script the package picks is not  *)
(* fixed here: diffChars is the set of all of them.                        *)
(***************************************************************************)
RECURSIVE EditScripts(_, _)
\* the edit scripts from a to b, as sequences of tokens
EditScripts(a, b) ==
  IF a = <<>> /\ b = <<>> THEN {<<>>}
  ELSE (IF a # <<>> /\ b # <<>> /\ Head(a) = Head(b)
        THEN {<<[op |-> "=", ch |-> Head(a)]>> \o t : t \in EditScripts(Tail(a), Tail(b))}
        ELSE {})
       \cup
       (IF a # <<>>
        THEN {<<[op |-> "-", ch |-> Head(a)]>> \o t : t \in EditScripts(Tail(a), b)}
        ELSE {})
       \cup
       (IF b # <<>>
        THEN {<<[op |-> "+", ch |-> Head(b)]>> \o t : t \in EditScripts(a, Tail(b))}
        ELSE {})

ScriptCost(t) == Cardinality({i \in 1..Len(t) : t[i].op # "="})

\* removals are listed before the additions of the same gap
RemovedFirst(t) == \A i \in 1..(Len(t) - 1) : ~(t[i].op = "+" /\ t[i + 1].op = "-")

RECURSIVE GroupParts(_)
\* consecutive tokens of one kind form one part
GroupParts(t) ==
  IF t = <<>> THEN <<>>
  ELSE LET rest == GroupParts(Tail(t))
           h == Head(t)
       IN IF rest # <<>> /\ rest[1].op = h.op
          THEN <<[rest[1] EXCEPT !.value = <<h.ch>> \o @]>> \o Tail(rest)
          ELSE <<[op |-> h.op, value |-> <<h.ch>>,
                  added |-> h.op = "+", removed |-> h.op = "-"]>> \o rest

diffChars(from, to) ==
  LET all == {t \in EditScripts(from, to) : RemovedFirst(t)}
      best == {t \in all : \A u \in all : ScriptCost(t) <= ScriptCost(u)}
  IN {GroupParts(t) : t \in best}

(***************************************************************************)
(* threeWayMerge (src/unnamed/part_002).  A result is a record: null is    *)
(* [conflict |-> TRUE], a text t is [conflict |-> FALSE, text |-> t].      *)
(***************************************************************************)
MergeNull == [conflict |-> TRUE, text |-> <<>>]

MergeText(t) == [conflict |-> FALSE, text |-> t]

\* the list of edits {start, end, newText} of a list of parts
buildEdits(parts) ==
  LET \* the state of the loop before part i is looked at: the edits so far,
      \* baseIdx, and whether part i was consumed by the part before it
      loop[i \in 1..(Len(parts) + 1)] ==
        IF i = 1 THEN [out |-> <<>>, baseIdx |-> 0, skip |-> FALSE]
        ELSE LET st == loop[i - 1]
                 p == parts[i - 1]
             IN IF st.skip THEN [st EXCEPT !.skip = FALSE]
                ELSE IF p.added
                THEN [st EXCEPT !.out = Append(@, [start |-> st.baseIdx,
                                                   end |-> st.baseIdx,
                                                   newText |-> p.value])]
                ELSE IF p.removed
                THEN LET removedCount == Len(p.value)
                         hasNext == i - 1 < Len(parts) /\ parts[i].added
                     IN [out |-> Append(st.out,
                                   [start |-> st.baseIdx,
                                    end |-> st.baseIdx + removedCount,
                                    newText |-> IF hasNext THEN parts[i].value ELSE <<>>]),
                         baseIdx |-> st.baseIdx + removedCount,
                         skip |-> hasNext]
                ELSE [st EXCEPT !.baseIdx = @ + Len(p.value)]
  IN loop[Len(parts) + 1].out

\* base.slice(from, to) for from <= to
Slice(base, from, to) == SubSeq(base, from + 1, Min(to, Len(base)))

\* an overlap test that holds for every pair of edits
overlapsAlways(a, b) == TRUE

overlaps(a, b) ==
  IF a.start = b.start THEN TRUE
  ELSE Max(a.start, b.start) < Min(a.end, b.end)

\* a comparison of the ranges that never tells them apart
sameRangeAlways(oursAtStart, theirsAtStart) == TRUE

\* sameRange and sameContent of the same-anchor case (lines 91-92)
sameRange(oursAtStart, theirsAtStart) == oursAtStart.end = theirsAtStart.end

\* a comparison of the replacement texts that never tells them apart
sameContentAlways(oursAtStart, theirsAtStart) == TRUE

sameContent(oursAtStart, theirsAtStart) == oursAtStart.newText = theirsAtStart.newText

\* the state after copyUntil(end)
copyUntil(st, base, end) ==
  IF st.pos < end
  THEN [st EXCEPT !.result = @ \o Slice(base, st.pos, end), !.pos = end]
  ELSE st

RECURSIVE MergeWalk(_, _, _, _)
\* the while loop and the final copy; st is [result, pos, oi, ti], oi and ti
\* count the edits already consumed
MergeWalk(base, ourEdits, theirEdits, st) ==
  IF ~(st.oi < Len(ourEdits) \/ st.ti < Len(theirEdits))
  THEN MergeText(copyUntil(st, base, Len(base)).result)
  ELSE LET hasO == st.oi < Len(ourEdits)
           hasT == st.ti < Len(theirEdits)
           oe == IF hasO THEN ourEdits[st.oi + 1] ELSE [start |-> 0, end |-> 0, newText |-> <<>>]
           te == IF hasT THEN theirEdits[st.ti + 1] ELSE [start |-> 0, end |-> 0, newText |-> <<>>]
           nextStart == IF hasO /\ hasT THEN Min(oe.start, te.start)
                        ELSE IF hasO THEN oe.start ELSE te.start
           copied == copyUntil(st, base, nextStart)
           oursAtStart == hasO /\ oe.start = nextStart
           theirsAtStart == hasT /\ te.start = nextStart
       IN IF oursAtStart /\ theirsAtStart
          THEN IF ~sameRange(oe, te) \/ ~sameContent(oe, te) THEN MergeNull
               ELSE MergeWalk(base, ourEdits, theirEdits,
                      [result |-> copied.result \o oe.newText, pos |-> oe.end,
                       oi |-> st.oi + 1, ti |-> st.ti + 1])
          ELSE IF oursAtStart
          THEN IF hasT /\ overlaps(oe, te) THEN MergeNull
               ELSE MergeWalk(base, ourEdits, theirEdits,
                      [result |-> copied.result \o oe.newText, pos |-> oe.end,
                       oi |-> st.oi + 1, ti |-> st.ti])
          ELSE IF hasO /\ overlaps(te, oe) THEN MergeNull
               ELSE MergeWalk(base, ourEdits, theirEdits,
                      [result |-> copied.result \o te.newText, pos |-> te.end,
                       oi |-> st.oi, ti |-> st.ti + 1])

\* the second fast path returning ours, which is the ancestor
threeWayMergeOursFirst(base, ours, theirs, ourParts, theirParts) ==
  IF ours = theirs THEN MergeText(ours)
  ELSE IF ours = base THEN MergeText(ours)
  ELSE IF theirs = base THEN MergeText(ours)
  ELSE MergeWalk(base, buildEdits(ourParts), buildEdits(theirParts),
                 [result |-> <<>>, pos |-> 0, oi |-> 0, ti |-> 0])

\* the result of threeWayMerge when diffChars returns ourParts and theirParts
threeWayMergeWith(base, ours, theirs, ourParts, theirParts) ==
  IF ours = theirs THEN MergeText(ours)
  ELSE IF ours = base THEN MergeText(theirs)
  ELSE IF theirs = base THEN MergeText(ours)
  ELSE MergeWalk(base, buildEdits(ourParts), buildEdits(theirParts),
                 [result |-> <<>>, pos |-> 0, oi |-> 0, ti |-> 0])

\* the indices of the ancestor that copyUntil(end) copies into the result
copiedBy(st, base, end) ==
  IF st.pos < end
  THEN [i \in 1..(Min(end, Len(base)) - st.pos) |-> st.pos + i - 1]
  ELSE <<>>

RECURSIVE WalkTrace(_, _, _, _, _)
\* the walk of MergeWalk with its history: cursor lists the values pos takes,
\* emitted the indices of the ancestor copied into the result, in the order
\* of the assignments; returned tells whether the walk returned a text
WalkTrace(base, ourEdits, theirEdits, st, trace) ==
  IF ~(st.oi < Len(ourEdits) \/ st.ti < Len(theirEdits))
  THEN [cursor |-> Append(trace.cursor, copyUntil(st, base, Len(base)).pos),
        emitted |-> trace.emitted \o copiedBy(st, base, Len(base)),
        returned |-> TRUE]
  ELSE LET hasO == st.oi < Len(ourEdits)
           hasT == st.ti < Len(theirEdits)
           oe == IF hasO THEN ourEdits[st.oi + 1] ELSE [start |-> 0, end |-> 0, newText |-> <<>>]
           te == IF hasT THEN theirEdits[st.ti + 1] ELSE [start |-> 0, end |-> 0, newText |-> <<>>]
           nextStart == IF hasO /\ hasT THEN Min(oe.start, te.start)
                        ELSE IF hasO THEN oe.start ELSE te.start
           copied == copyUntil(st, base, nextStart)
           oursAtStart == hasO /\ oe.start = nextStart
           theirsAtStart == hasT /\ te.start = nextStart
           after(e) == [cursor |-> trace.cursor \o <<copied.pos, e.end>>,
                        emitted |-> trace.emitted \o copiedBy(st, base, nextStart),
                        returned |-> FALSE]
           conflict == [cursor |-> Append(trace.cursor, copied.pos),
                        emitted |-> trace.emitted \o copiedBy(st, base, nextStart),
                        returned |-> FALSE]
       IN IF oursAtStart /\ theirsAtStart
          THEN IF ~sameRange(oe, te) \/ ~sameContent(oe, te) THEN conflict
               ELSE WalkTrace(base, ourEdits, theirEdits,
                      [result |-> copied.result \o oe.newText, pos |-> oe.end,
                       oi |-> st.oi + 1, ti |-> st.ti + 1], after(oe))
          ELSE IF oursAtStart
          THEN IF hasT /\ overlaps(oe, te) THEN conflict
               ELSE WalkTrace(base, ourEdits, theirEdits,
                      [result |-> copied.result \o oe.newText, pos |-> oe.end,
                       oi |-> st.oi + 1, ti |-> st.ti], after(oe))
          ELSE IF hasO /\ overlaps(te, oe) THEN conflict
               ELSE WalkTrace(base, ourEdits, theirEdits,
                      [result |-> copied.result \o te.newText, pos |-> te.end,
                       oi |-> st.oi, ti |-> st.ti + 1], after(te))

\* the history of the walk of threeWayMerge; a fast path has no walk
threeWayMergeTrace(base, ours, theirs, ourParts, theirParts) ==
  IF ours = theirs \/ ours = base \/ theirs = base
  THEN [cursor |-> <<0>>, emitted |-> <<>>, returned |-> FALSE]
  ELSE WalkTrace(base, buildEdits(ourParts), buildEdits(theirParts),
                 [result |-> <<>>, pos |-> 0, oi |-> 0, ti |-> 0],
                 [cursor |-> <<0>>, emitted |-> <<>>, returned |-> FALSE])

\* the results threeWayMerge can return
threeWayMerge(base, ours, theirs) ==
  {threeWayMergeWith(base, ours, theirs, ourParts, theirParts) :
     ourParts \in diffChars(base, ours), theirParts \in diffChars(base, theirs)}

(***************************************************************************)
(* The state.                                                              *)
(***************************************************************************)
VARIABLES
  files,          \* the vault: path -> [data, mtime], for the files that exist
  now,            \* the clock that Date and the file system read
  commits,        \* the history of the branch: commits[oid] is the tree of oid
  settings,       \* this.settings: [lastSyncedAt, currentCommit]
  stored,         \* the settings as last written by saveData
  syncInProgress, \* this.syncInProgress
  call,           \* the checkout calls: call[c] is the frame of call c
  env,            \* the number of steps the environment has taken
  vaultAtCheckpoint, \* history: the paths of the vault when lastSyncedAt was assigned
  treeRun,        \* a run of buildTree and findDifferences on two file lists
  mergeRun,       \* a run of threeWayMerge on three texts
  buildRun        \* a run of buildTree on one file list, step by step

vars ==
  <<files, now, commits, settings, stored, syncInProgress, call, env, vaultAtCheckpoint,
    treeRun, mergeRun, buildRun>>

\* the variables of the reconciliation pass, and those of the runs of the
\* tree functions and of the merge on their own
passVars ==
  <<files, now, commits, settings, stored, syncInProgress, call, env, vaultAtCheckpoint>>

runVars == <<treeRun, mergeRun, buildRun>>

\* line 1329: when lastSyncedAt is assigned, the history notes the paths
\* the vault holds
RecordCheckpoint ==
  vaultAtCheckpoint' = IF settings'.lastSyncedAt # settings.lastSyncedAt
                       THEN DOMAIN files'
                       ELSE vaultAtCheckpoint

\* the paths of the vault at the checkpoint a pass that begins now reads
VaultThen ==
  IF settings.lastSyncedAt = 0 THEN DOMAIN files ELSE vaultAtCheckpoint

\* no run of the tree functions, no run of the merge
NoTreeRun == [pc |-> "none"]

NoMergeRun == [pc |-> "none"]

NoBuildRun == [pc |-> "none"]

Calls == 1..MaxCalls

\* the tree of the head of the branch, which is what a read at ref sees
HeadOid == Len(commits)

HeadTree == commits[HeadOid]

\* a tree or a vault with path p set to data d / without path p
WithFile(t, p, v) == [q \in (DOMAIN t) \cup {p} |-> IF q = p THEN v ELSE t[q]]

WithoutFile(t, p) == [q \in (DOMAIN t) \ {p} |-> t[q]]

(***************************************************************************)
(* IgnoreManager (src/src/utils.ts).  No .gitignore file is in the vault,  *)
(* so getParser returns null and a path is ignored exactly when one of its *)
(* segments is ".git".                                                     *)
(***************************************************************************)
DotGit == 99

isIgnored(path) == DotGit \in Range(path)

ignoreFilter(paths) == {path \in paths : ~isIgnored(path)}

\* a file of the vault that is ignored
PathGit == <<DotGit, 1>>

(***************************************************************************)
(* The GitHub client (src/unnamed/part_001).                               *)
(***************************************************************************)
\* getAllFilesAt: the blobs of a tree with their git blob sha
getAllFilesAt(tree) == [path \in DOMAIN tree |-> gitBlobSha1Hex(tree[path])]

\* the "files" of GitHub's compare base...head: one entry per path whose
\* content differs, a path that appears with the content of a path that
\* disappeared being reported as renamed
CompareFiles(base, head) ==
  LET added == (DOMAIN head) \ (DOMAIN base)
      gone == (DOMAIN base) \ (DOMAIN head)
      changed == {q \in (DOMAIN base) \cap (DOMAIN head) : base[q] # head[q]}
      sources(q) == {r \in gone : base[r] = head[q]}
      source(q) == CHOOSE r \in sources(q) : \A r2 \in sources(q) : r = r2 \/ SeqLess(r, r2)
      renamedTo == {q \in added : sources(q) # {}}
      renamedFrom == {source(q) : q \in renamedTo}
      entry(q) ==
        IF q \in renamedTo
        THEN [filename |-> q, status |-> "renamed", previous_filename |-> source(q)]
        ELSE IF q \in added THEN [filename |-> q, status |-> "added", previous_filename |-> <<>>]
        ELSE IF q \in gone THEN [filename |-> q, status |-> "removed", previous_filename |-> <<>>]
        ELSE [filename |-> q, status |-> "modified", previous_filename |-> <<>>]
      listed == SetToSeq(added \cup changed \cup (gone \ renamedFrom))
  IN [i \in 1..Len(listed) |-> entry(listed[i])]

\* the ops pushed for one file of the comparison
FileOps(file) ==
  IF file.status = "added" THEN <<[path |-> file.filename, action |-> "added"]>>
  ELSE IF file.status = "removed" THEN <<[path |-> file.filename, action |-> "removed"]>>
  ELSE IF file.status \in {"modified", "changed"}
  THEN <<[path |-> file.filename, action |-> "modified"]>>
  ELSE IF file.status = "renamed"
  THEN (IF file.previous_filename # <<>>
        THEN <<[path |-> file.previous_filename, action |-> "removed"]>>
        ELSE <<>>)
       \o <<[path |-> file.filename, action |-> "added"]>>
  ELSE <<>>

\* getFileChangesSince on the response "compared": the final action per path
getFileChangesSince(compared) ==
  LET ops == Concat([i \in 1..Len(compared) |-> FileOps(compared[i])])
      last(path) == CHOOSE i \in 1..Len(ops) :
                      /\ ops[i].path = path
                      /\ \A j \in (i + 1)..Len(ops) : ops[j].path # path
  IN {[path |-> path, action |-> ops[last(path)].action] :
        path \in {ops[i].path : i \in 1..Len(ops)}}

\* the tree of the commit createCommitOnBranch makes on top of tree
RECURSIVE ApplyAdditions(_, _)
ApplyAdditions(tree, additions) ==
  IF additions = {} THEN tree
  ELSE LET a == CHOOSE x \in additions : TRUE
       IN ApplyAdditions(WithFile(tree, a.path, DecodeBase64(a.contents)), additions \ {a})

CommitTree(tree, additions, deletions) ==
  LET kept == [q \in (DOMAIN tree) \ deletions |-> tree[q]]
  IN ApplyAdditions(kept, additions)

(***************************************************************************)
(* The vault side of the pass (src/src/main.ts).                           *)
(***************************************************************************)
listAllLocalFiles == DOMAIN files

scanLocalUpdatedSince(since) ==
  {path \in listAllLocalFiles : ~isIgnored(path) /\ since < files[path].mtime}

getLocalTree ==
  buildTree(SetToSeq(ignoreFilter(listAllLocalFiles)),
            [path \in listAllLocalFiles |-> gitBlobSha1Hex(files[path].data)])

getRemoteTree(tree) ==
  LET remoteShas == getAllFilesAt(tree)
  IN buildTree(SetToSeq(ignoreFilter(DOMAIN remoteShas)), remoteShas)

\* the result of getMerkleDiff when the branch head has the tree "tree"
getMerkleDiff(tree) ==
  LET diffs == findDifferences(getLocalTree, getRemoteTree(tree))
  IN [localOnly |-> diffs.left, modified |-> diffs.both, remoteOnly |-> diffs.right]

(***************************************************************************)
(* Delta resolution (src/src/main.ts 1162-1210).  A change log is a record *)
(* [null, ...]: localChanges has the set paths, remoteChanges the set ops  *)
(* of records [path, action].                                              *)
(***************************************************************************)
NullLocal == [null |-> TRUE, paths |-> {}]

NullRemote == [null |-> TRUE, ops |-> {}]

\* a local change log that reports no path
LocalContainsNever(localChanges, v) == FALSE

\* localChanges?.contains(v), undefined being falsy
LocalContains(localChanges, v) == ~localChanges.null /\ v \in localChanges.paths

RemotePaths(remoteChanges) == {op.path : op \in remoteChanges.ops}

RemoteRemoved(remoteChanges) ==
  {op.path : op \in {o \in remoteChanges.ops : o.action = "removed"}}

\* the pull branch without the modified paths
resolveDownloadsRemoteOnly(strategy, d, localChanges, remoteChanges) ==
  IF strategy = "pull" THEN Range(d.remoteOnly)
  ELSE IF strategy = "push" THEN {}
  ELSE {v \in Range(d.remoteOnly) \cup Range(d.modified) :
          /\ ~LocalContains(localChanges, v)
          /\ ~(~remoteChanges.null /\ v \in RemoteRemoved(remoteChanges))}

resolveDownloads(strategy, d, localChanges, remoteChanges) ==
  IF strategy = "pull" THEN Range(d.remoteOnly) \cup Range(d.modified)
  ELSE IF strategy = "push" THEN {}
  ELSE {v \in Range(d.remoteOnly) \cup Range(d.modified) :
          /\ ~LocalContains(localChanges, v)
          /\ ~(~remoteChanges.null /\ v \in RemoteRemoved(remoteChanges))}

\* the removal of the local-only paths under every strategy but bidirectional
resolveRemovesAlsoPush(strategy, d, localChanges, remoteChanges) ==
  IF strategy \in {"pull", "push"} THEN Range(d.localOnly)
  ELSE IF remoteChanges.null THEN {}
  ELSE {v \in RemoteRemoved(remoteChanges) : ~LocalContains(localChanges, v)}

resolveRemoves(strategy, d, localChanges, remoteChanges) ==
  IF strategy = "pull" THEN Range(d.localOnly)
  ELSE IF strategy = "push" THEN {}
  ELSE IF remoteChanges.null THEN {}
  ELSE {v \in RemoteRemoved(remoteChanges) : ~LocalContains(localChanges, v)}

\* the bidirectional branch without the filter on the remote change log
resolveUploadsUnfiltered(strategy, d, localChanges, remoteChanges) ==
  IF strategy = "pull" THEN {}
  ELSE Range(d.localOnly) \cup Range(d.modified)

resolveUploads(strategy, d, localChanges, remoteChanges) ==
  IF strategy = "pull" THEN {}
  ELSE IF strategy = "push" THEN Range(d.localOnly) \cup Range(d.modified)
  ELSE {v \in Range(d.localOnly) \cup Range(d.modified) :
          ~(~remoteChanges.null /\ v \in RemotePaths(remoteChanges))}
       \cup
       (IF ~remoteChanges.null
        THEN {v \in Range(d.remoteOnly) : v \notin RemotePaths(remoteChanges)}
        ELSE {})

\* without a remote change log every modified path is taken for a conflict
resolveConflictsStructural(strategy, d, localChanges, remoteChanges) ==
  IF strategy \in {"pull", "push"} THEN {}
  ELSE IF remoteChanges.null THEN Range(d.modified)
  ELSE {v \in RemotePaths(remoteChanges) : LocalContains(localChanges, v)}

resolveConflicts(strategy, d, localChanges, remoteChanges) ==
  IF strategy \in {"pull", "push"} THEN {}
  ELSE IF remoteChanges.null THEN {}
  ELSE {v \in RemotePaths(remoteChanges) : LocalContains(localChanges, v)}

(***************************************************************************)
(* The frame of a checkout call and its per-path tasks.                    *)
(*                                                                         *)
(* pc of a frame: "idle" (not called yet), "rejected" (returned at the     *)
(* guard), "diff" (awaiting getMerkleDiff), "scan" (awaiting the two       *)
(* change logs), "tasks" (awaiting Promise.all), "head" (awaiting          *)
(* getTargetBranch), "commit" (awaiting createCommitOnBranch), "save"      *)
(* (awaiting saveSettings), "done" and "failed" (left through finally,     *)
(* without and with the catch block).                                      *)
(*                                                                         *)
(* The last fields are history.  before: the stored checkpoint when the    *)
(* pass began.  resolved: the delta has been resolved.  seenOid: the head  *)
(* of the branch when the remote tree was listed.  cause: what took the    *)
(* pass to the catch block, "transport" for a failed request, "other" for  *)
(* any other exception.  wrote, removed: the paths the tasks of the call   *)
(* wrote and removed in the vault.  newOid: the commit the call made.      *)
(* localAtCheckpoint: the paths the vault held when the checkpoint the     *)
(* pass began with was assigned, and for a pass without a checkpoint the   *)
(* paths the vault held when the pass began.  editedDuring: the files the   *)
(* user wrote after the local scan of the pass and before the pass stored  *)
(* its checkpoint, as pairs of the path and the mtime of the write.        *)
(***************************************************************************)
NoDiff == [localOnly |-> <<>>, modified |-> <<>>, remoteOnly |-> <<>>]

NoCheckpoint == [lastSyncedAt |-> 0, currentCommit |-> 0]

IdleFrame ==
  [pc |-> "idle", strategy |-> "pull", lastSyncedAt |-> 0, currentCommit |-> 0,
   diff |-> NoDiff, localChanges |-> NullLocal, remoteChanges |-> NullRemote,
   downloads |-> {}, uploads |-> {}, removes |-> {}, conflicts |-> {},
   tasks |-> <<>>, additions |-> {}, deletions |-> {}, headOid |-> 0,
   before |-> NoCheckpoint, resolved |-> FALSE, seenOid |-> 0, cause |-> "none",
   wrote |-> {}, removed |-> {}, newOid |-> 0, localAtCheckpoint |-> {},
   editedDuring |-> {}]

ActivePcs == {"diff", "scan", "tasks", "head", "commit", "save"}

\* the positions of a pass after its scan of the vault (line 1151) and before
\* saveSettings has stored the checkpoint (line 1330)
AfterScanPcs == {"tasks", "head", "commit", "save"}

\* a task: its position, the bytes or text it holds, the ancestor text, and
\* what threeWayMerge returned ("none" before the merge)
NewTask(pc) == [pc |-> pc, data |-> <<>>, base |-> <<>>, merged |-> "none"]

TaskKeys(rec) ==
  {<<"download", path>> : path \in rec.downloads}
    \cup {<<"upload", path>> : path \in rec.uploads}
    \cup {<<"remove", path>> : path \in rec.removes}
    \cup {<<"conflict", path>> : path \in rec.conflicts}

\* every task runs up to its first await when the array is built
StartTasks(rec) ==
  [k \in TaskKeys(rec) |->
     IF k[1] = "download" THEN NewTask("fetch")
     ELSE IF k[1] = "upload" THEN NewTask("stat")
     ELSE IF k[1] = "remove" THEN NewTask("remove")
     ELSE IF rec.currentCommit = 0 THEN NewTask("done")
     ELSE NewTask("stat")]

\* Promise.all not awaited: the pass goes on while tasks are running
AllDoneNotAwaited(tasks) == TRUE

AllDone(tasks) == \A k \in DOMAIN tasks : tasks[k].pc = "done"

(***************************************************************************)
(* Init: the plugin has been constructed and its settings loaded.  Either  *)
(* nothing was ever synchronised, or an earlier run left a checkpoint at   *)
(* commit 1 with the vault equal to that commit.                           *)
(***************************************************************************)
LocalData == {TextXB}

RemoteData == {TextAY}

File(data, mtime) == [data |-> data, mtime |-> mtime]

FirstTree == (PathA :> TextAB) @@ (PathB :> TextAB)

\* never synchronised: a differs, b is too large to be transferred
FreshVault ==
  (PathA :> File(TextXB, 1)) @@ (PathB :> File(TextBig, 1)) @@ (PathGit :> File(TextAB, 1))

\* as the pass that made commit 1 left it
SyncedVault ==
  (PathA :> File(TextAB, 1)) @@ (PathB :> File(TextAB, 1)) @@ (PathGit :> File(TextAB, 1))

\* never synchronised, and b is not in the vault
SmallVault == (PathA :> File(TextXB, 1)) @@ (PathGit :> File(TextAB, 1))

\* a branch on which b is too large to be transferred
BigTree == (PathA :> TextAB) @@ (PathB :> TextBig)

\* a was edited in the vault after the checkpoint
EditedVault == WithFile(SyncedVault, PathA, File(TextXB, 3))

\* a has grown beyond the ceiling in the vault after the checkpoint
GrownVault == WithFile(SyncedVault, PathA, File(TextBig, 3))

Init ==
  /\ \/ /\ files = FreshVault
        /\ commits = <<FirstTree>>
        /\ settings = NoCheckpoint
        /\ vaultAtCheckpoint = {}
        /\ now = 2
     \/ /\ files = SmallVault
        /\ commits = <<BigTree>>
        /\ settings = NoCheckpoint
        /\ vaultAtCheckpoint = {}
        /\ now = 2
     \/ /\ files = SyncedVault
        /\ commits = <<FirstTree>>
        /\ settings = [lastSyncedAt |-> 2, currentCommit |-> 1]
        /\ vaultAtCheckpoint = DOMAIN SyncedVault
        /\ now = 3
     \/ \* a was also changed on the branch after the checkpoint
        /\ \/ /\ files = EditedVault
              /\ \E data \in {TextAY, TextYB, TextBig} :
                   commits = <<FirstTree, WithFile(FirstTree, PathA, data)>>
           \/ /\ files = GrownVault
              /\ commits = <<FirstTree, WithFile(FirstTree, PathA, TextAY)>>
        /\ settings = [lastSyncedAt |-> 2, currentCommit |-> 1]
        /\ vaultAtCheckpoint = DOMAIN SyncedVault
        /\ now = 4
  /\ stored = settings
  /\ syncInProgress = FALSE
  /\ call = [c \in Calls |-> IdleFrame]
  /\ env = 0
  /\ treeRun = NoTreeRun
  /\ mergeRun = NoMergeRun
  /\ buildRun = NoBuildRun

(***************************************************************************)
(* The continuation of checkout after a step of one of its tasks           *)
(* (src/src/main.ts 1308-1330 and 1335-1343).  rec is the frame after the  *)
(* step, cause tells whether and why the task threw ("none", "transport",  *)
(* "other"), t is the clock after it.                                      *)
(* While the frame awaits Promise.all, the first rejection takes it        *)
(* through catch and finally; the last completion takes it to the commit   *)
(* step, or, with nothing to commit, to the checkpoint write.  The tasks   *)
(* of a frame that has left Promise.all run on without it.                 *)
(***************************************************************************)
Settle(c, rec, cause, t) ==
  IF rec.pc # "tasks"
  THEN /\ call' = [call EXCEPT ![c] = rec]
       /\ now' = t
       /\ UNCHANGED <<settings, syncInProgress>>
  ELSE IF cause # "none"
  THEN /\ call' = [call EXCEPT ![c] = [rec EXCEPT !.pc = "failed", !.cause = cause]]
       /\ syncInProgress' = FALSE
       /\ now' = t
       /\ UNCHANGED settings
  ELSE IF ~AllDone(rec.tasks)
  THEN /\ call' = [call EXCEPT ![c] = rec]
       /\ now' = t
       /\ UNCHANGED <<settings, syncInProgress>>
  ELSE IF rec.additions # {} \/ rec.deletions # {}
  THEN /\ call' = [call EXCEPT ![c] = [rec EXCEPT !.pc = "head"]]
       /\ now' = t
       /\ UNCHANGED <<settings, syncInProgress>>
  ELSE /\ t <= MaxClock
       /\ call' = [call EXCEPT ![c] = [rec EXCEPT !.pc = "save"]]
       /\ settings' = [settings EXCEPT !.lastSyncedAt = t]
       /\ now' = t + 1
       /\ UNCHANGED syncInProgress

\* the outcomes of a request to GitHub or of saveData: TRUE is the answer,
\* FALSE a transport failure, which counts as a step of the environment
Responses == IF env < MaxEnv THEN BOOLEAN ELSE {TRUE}

\* a catch block without the finally block that clears the flag
FailKeepsFlag(c, cause) ==
  /\ call' = [call EXCEPT ![c].pc = "failed", ![c].cause = cause]
  /\ syncInProgress' = syncInProgress

\* catch and finally of checkout, for a failure outside the tasks
Fail(c, cause) ==
  /\ call' = [call EXCEPT ![c].pc = "failed", ![c].cause = cause]
  /\ syncInProgress' = FALSE

(***************************************************************************)
(* checkout (src/src/main.ts 1135-1344), one action per await.             *)
(***************************************************************************)
\* the calls are numbered in the order in which they are made
NextCall(c) ==
  /\ call[c].pc = "idle"
  /\ \A b \in 1..(c - 1) : call[b].pc # "idle"

\* checkout without the guard of line 1136
checkoutNoGuard(c, strategy) ==
  /\ NextCall(c)
  /\ syncInProgress' = TRUE
  /\ call' = [call EXCEPT ![c] =
                [IdleFrame EXCEPT !.pc = "diff",
                                  !.strategy = strategy,
                                  !.lastSyncedAt = settings.lastSyncedAt,
                                  !.currentCommit = settings.currentCommit,
                                  !.before = stored,
                                  !.localAtCheckpoint = VaultThen]]
  /\ UNCHANGED <<files, now, commits, settings, stored, env>>
  /\ UNCHANGED runVars
  /\ RecordCheckpoint

\* lines 1135-1142: the guard, the flag and the reads of the checkpoint
checkout(c, strategy) ==
  /\ NextCall(c)
  /\ IF syncInProgress
     THEN /\ call' = [call EXCEPT ![c].pc = "rejected", ![c].strategy = strategy]
          /\ UNCHANGED syncInProgress
     ELSE /\ syncInProgress' = TRUE
          /\ call' = [call EXCEPT ![c] =
                        [IdleFrame EXCEPT !.pc = "diff",
                                          !.strategy = strategy,
                                          !.lastSyncedAt = settings.lastSyncedAt,
                                          !.currentCommit = settings.currentCommit,
                                          !.before = stored,
                                          !.localAtCheckpoint = VaultThen]]
  /\ UNCHANGED <<files, now, commits, settings, stored, env>>
  /\ UNCHANGED runVars
  /\ RecordCheckpoint

\* line 1143: both trees and their differences, or "Merkle diff failed"
MerkleDiffStep(c) ==
  /\ call[c].pc = "diff"
  /\ \E ok \in Responses :
       /\ env' = IF ok THEN env ELSE env + 1
       /\ IF ok
          THEN /\ call' = [call EXCEPT ![c].pc = "scan",
                                       ![c].diff = getMerkleDiff(HeadTree),
                                       ![c].seenOid = HeadOid]
               /\ UNCHANGED syncInProgress
          ELSE Fail(c, "transport")
  /\ UNCHANGED <<files, now, commits, settings, stored>>
  /\ UNCHANGED runVars
  /\ RecordCheckpoint

\* lines 1150-1302: the two change logs, the delta and the start of the tasks
ScanAndResolve(c) ==
  /\ call[c].pc = "scan"
  /\ \E ok \in Responses :
       /\ env' = IF ok THEN env ELSE env + 1
       /\ IF ~ok /\ call[c].currentCommit # 0
          THEN /\ Fail(c, "transport")
               /\ UNCHANGED <<now, settings>>
          ELSE LET f == call[c]
                   localChanges ==
                     IF f.lastSyncedAt # 0
                     THEN [null |-> FALSE, paths |-> scanLocalUpdatedSince(f.lastSyncedAt)]
                     ELSE NullLocal
                   remoteChanges ==
                     IF f.currentCommit # 0
                     THEN [null |-> FALSE,
                           ops |-> getFileChangesSince(
                                     CompareFiles(commits[f.currentCommit], HeadTree))]
                     ELSE NullRemote
                   resolved ==
                     [f EXCEPT
                        !.pc = "tasks",
                        !.resolved = TRUE,
                        !.localChanges = localChanges,
                        !.remoteChanges = remoteChanges,
                        !.downloads = ignoreFilter(
                           resolveDownloads(f.strategy, f.diff, localChanges, remoteChanges)),
                        !.uploads = ignoreFilter(
                           resolveUploads(f.strategy, f.diff, localChanges, remoteChanges)),
                        !.removes = ignoreFilter(
                           resolveRemoves(f.strategy, f.diff, localChanges, remoteChanges)),
                        !.conflicts =
                           resolveConflicts(f.strategy, f.diff, localChanges, remoteChanges)]
                   started == [resolved EXCEPT !.tasks = StartTasks(resolved)]
               IN /\ ok
                  /\ Settle(c, started, "none", now)
  /\ UNCHANGED <<files, commits, stored>>
  /\ UNCHANGED runVars
  /\ RecordCheckpoint

(***************************************************************************)
(* The tasks (src/src/main.ts 1226-1302), one action per await.            *)
(***************************************************************************)
\* a check that skips every file
byteLengthAboveNothing(data) == FALSE

\* data.byteLength > maxBytes (lines 1229, 1276 and 1287)
byteLengthAboveMax(data) == Len(data) > maxBytes

TaskAt(c, k, pc) == k \in DOMAIN call[c].tasks /\ call[c].tasks[k].pc = pc

\* the frame of c with task k changed to task
SetTask(c, k, task) == [call[c] EXCEPT !.tasks[k] = task]

\* lines 1228-1232: getFileRawAtRef(ref, path) and the size check
DownloadFetch(c, path) ==
  LET k == <<"download", path>>
  IN /\ TaskAt(c, k, "fetch")
     /\ \E ok \in Responses :
          /\ env' = IF ok THEN env ELSE env + 1
          /\ IF ~ok \/ path \notin DOMAIN HeadTree
             THEN Settle(c, SetTask(c, k, [call[c].tasks[k] EXCEPT !.pc = "failed"]), IF ok THEN "other" ELSE "transport", now)
             ELSE LET data == HeadTree[path]
                  IN IF byteLengthAboveMax(data)
                     THEN /\ ok
                          /\ Settle(c, SetTask(c, k, [call[c].tasks[k] EXCEPT !.pc = "done"]),
                                    "none", now)
                     ELSE /\ ok
                          /\ Settle(c, SetTask(c, k, [call[c].tasks[k] EXCEPT
                                                        !.pc = "write", !.data = data]),
                                    "none", now)
     /\ UNCHANGED <<files, commits, stored>>
     /\ UNCHANGED runVars
     /\ RecordCheckpoint

\* lines 1233-1238: ensureFolder and writeBinary
DownloadWrite(c, path) ==
  LET k == <<"download", path>>
      task == call[c].tasks[k]
  IN /\ TaskAt(c, k, "write")
     /\ now <= MaxClock
     /\ files' = WithFile(files, path, File(task.data, now))
     /\ Settle(c, [SetTask(c, k, [task EXCEPT !.pc = "done"]) EXCEPT
                     !.wrote = @ \cup {path}],
               "none", now + 1)
     /\ UNCHANGED <<commits, stored, env>>
     /\ UNCHANGED runVars
     /\ RecordCheckpoint

\* lines 1241-1243 and 1252-1255: stat, and the deletion of a missing file
UploadStat(c, path) ==
  LET k == <<"upload", path>>
      task == call[c].tasks[k]
  IN /\ TaskAt(c, k, "stat")
     /\ IF path \notin DOMAIN files
        THEN Settle(c, [SetTask(c, k, [task EXCEPT !.pc = "done"]) EXCEPT
                          !.deletions = @ \cup {path}],
                    "none", now)
        ELSE IF Len(files[path].data) <= maxBytes
        THEN Settle(c, SetTask(c, k, [task EXCEPT !.pc = "read"]), "none", now)
        ELSE Settle(c, SetTask(c, k, [task EXCEPT !.pc = "done"]), "none", now)
     /\ UNCHANGED <<files, commits, stored, env>>
     /\ UNCHANGED runVars
     /\ RecordCheckpoint

\* lines 1244-1250: readBinary, which throws for a missing file, and the push
UploadRead(c, path) ==
  LET k == <<"upload", path>>
      task == call[c].tasks[k]
  IN /\ TaskAt(c, k, "read")
     /\ IF path \notin DOMAIN files
        THEN Settle(c, SetTask(c, k, [task EXCEPT !.pc = "failed"]), "other", now)
        ELSE Settle(c, [SetTask(c, k, [task EXCEPT !.pc = "done"]) EXCEPT
                          !.additions = @ \cup {[path |-> path,
                                                 contents |-> encodeBase64(files[path].data)]}],
                    "none", now)
     /\ UNCHANGED <<files, commits, stored, env>>
     /\ UNCHANGED runVars
     /\ RecordCheckpoint

\* line 1258: adapter.remove; the adapter is free to reject the removal of a
\* file that does not exist
RemoveStep(c, path) ==
  LET k == <<"remove", path>>
      task == call[c].tasks[k]
  IN /\ TaskAt(c, k, "remove")
     /\ IF path \in DOMAIN files
        THEN /\ files' = WithoutFile(files, path)
             /\ Settle(c, [SetTask(c, k, [task EXCEPT !.pc = "done"]) EXCEPT
                             !.removed = @ \cup {path}],
                       "none", now)
        ELSE /\ UNCHANGED files
             /\ \E ok \in BOOLEAN :
                  Settle(c, SetTask(c, k, [task EXCEPT !.pc = IF ok THEN "done" ELSE "failed"]),
                         IF ok THEN "none" ELSE "other", now)
     /\ UNCHANGED <<commits, stored, env>>
     /\ UNCHANGED runVars
     /\ RecordCheckpoint

\* lines 1264-1267: stat of the conflicting file
ConflictStat(c, path) ==
  LET k == <<"conflict", path>>
      task == call[c].tasks[k]
  IN /\ TaskAt(c, k, "stat")
     /\ IF path \notin DOMAIN files \/ maxBytes < Len(files[path].data)
        THEN Settle(c, SetTask(c, k, [task EXCEPT !.pc = "done"]), "none", now)
        ELSE Settle(c, SetTask(c, k, [task EXCEPT !.pc = "read"]), "none", now)
     /\ UNCHANGED <<files, commits, stored, env>>
     /\ UNCHANGED runVars
     /\ RecordCheckpoint

\* lines 1268-1269: readBinary and decode
ConflictRead(c, path) ==
  LET k == <<"conflict", path>>
      task == call[c].tasks[k]
  IN /\ TaskAt(c, k, "read")
     /\ IF path \notin DOMAIN files
        THEN Settle(c, SetTask(c, k, [task EXCEPT !.pc = "failed"]), "other", now)
        ELSE Settle(c, SetTask(c, k, [task EXCEPT !.pc = "base",
                                                   !.data = TextDecode(files[path].data)]),
                    "none", now)
     /\ UNCHANGED <<files, commits, stored, env>>
     /\ UNCHANGED runVars
     /\ RecordCheckpoint

\* lines 1270-1280: the ancestor, read at currentCommit
ConflictBase(c, path) ==
  LET k == <<"conflict", path>>
      task == call[c].tasks[k]
      tree == commits[call[c].currentCommit]
  IN /\ TaskAt(c, k, "base")
     /\ \E ok \in Responses :
          /\ env' = IF ok THEN env ELSE env + 1
          /\ IF ~ok \/ path \notin DOMAIN tree
             THEN Settle(c, SetTask(c, k, [task EXCEPT !.pc = "failed"]), IF ok THEN "other" ELSE "transport", now)
             ELSE IF byteLengthAboveMax(tree[path])
             THEN /\ ok
                  /\ Settle(c, SetTask(c, k, [task EXCEPT !.pc = "done"]), "none", now)
             ELSE /\ ok
                  /\ Settle(c, SetTask(c, k, [task EXCEPT !.pc = "ref",
                                                           !.base = TextDecode(tree[path])]),
                            "none", now)
     /\ UNCHANGED <<files, commits, stored>>
     /\ UNCHANGED runVars
     /\ RecordCheckpoint

\* lines 1281-1295: the remote version, read at ref, and the merge; a null
\* result and an empty merged text both end the task
ConflictRef(c, path) ==
  LET k == <<"conflict", path>>
      task == call[c].tasks[k]
  IN /\ TaskAt(c, k, "ref")
     /\ \E ok \in Responses :
          /\ env' = IF ok THEN env ELSE env + 1
          /\ IF ~ok \/ path \notin DOMAIN HeadTree
             THEN Settle(c, SetTask(c, k, [task EXCEPT !.pc = "failed"]), IF ok THEN "other" ELSE "transport", now)
             ELSE IF byteLengthAboveMax(HeadTree[path])
             THEN /\ ok
                  /\ Settle(c, SetTask(c, k, [task EXCEPT !.pc = "done"]), "none", now)
             ELSE /\ ok
                  /\ \E merged \in threeWayMerge(task.base, task.data, TextDecode(HeadTree[path])) :
                       IF merged.conflict
                       THEN Settle(c, SetTask(c, k, [task EXCEPT !.pc = "done",
                                                                  !.merged = "null"]),
                                   "none", now)
                       ELSE IF merged.text = <<>>
                       THEN Settle(c, SetTask(c, k, [task EXCEPT !.pc = "done",
                                                                  !.merged = "empty"]),
                                   "none", now)
                       ELSE Settle(c, SetTask(c, k, [task EXCEPT !.pc = "write",
                                                                  !.data = merged.text,
                                                                  !.merged = "text"]),
                                   "none", now)
     /\ UNCHANGED <<files, commits, stored>>
     /\ UNCHANGED runVars
     /\ RecordCheckpoint

\* lines 1296-1300: the merged text is written over the local file
ConflictWrite(c, path) ==
  LET k == <<"conflict", path>>
      task == call[c].tasks[k]
  IN /\ TaskAt(c, k, "write")
     /\ now <= MaxClock
     /\ files' = WithFile(files, path, File(TextEncode(task.data), now))
     /\ Settle(c, [SetTask(c, k, [task EXCEPT !.pc = "done"]) EXCEPT
                     !.wrote = @ \cup {path}],
               "none", now + 1)
     /\ UNCHANGED <<commits, stored, env>>
     /\ UNCHANGED runVars
     /\ RecordCheckpoint

(***************************************************************************)
(* The commit step and the checkpoint (src/src/main.ts 1310-1344).         *)
(***************************************************************************)
\* lines 1313-1316: getTargetBranch reads the head of the branch
GetTargetBranch(c) ==
  /\ call[c].pc = "head"
  /\ \E ok \in Responses :
       /\ env' = IF ok THEN env ELSE env + 1
       /\ IF ok
          THEN /\ call' = [call EXCEPT ![c].pc = "commit", ![c].headOid = HeadOid]
               /\ UNCHANGED syncInProgress
          ELSE Fail(c, "transport")
  /\ UNCHANGED <<files, now, commits, settings, stored>>
  /\ UNCHANGED runVars
  /\ RecordCheckpoint

\* lines 1317-1329: createCommitOnBranch, which GitHub rejects when
\* expectedHeadOid is not the head of the branch, then the two assignments
\* of the checkpoint and the call of saveSettings
CreateCommit(c) ==
  /\ call[c].pc = "commit"
  /\ \E ok \in Responses :
       /\ env' = IF ok THEN env ELSE env + 1
       /\ IF ~ok \/ call[c].headOid # HeadOid
          THEN /\ Fail(c, IF ok THEN "other" ELSE "transport")
               /\ UNCHANGED <<commits, settings, now>>
          ELSE /\ ok
               /\ Len(commits) < MaxCommits
               /\ now <= MaxClock
               /\ commits' = Append(commits,
                               CommitTree(HeadTree, call[c].additions, call[c].deletions))
               /\ settings' = [lastSyncedAt |-> now, currentCommit |-> HeadOid + 1]
               /\ now' = now + 1
               /\ call' = [call EXCEPT ![c].pc = "save", ![c].newOid = HeadOid + 1]
               /\ UNCHANGED syncInProgress
  /\ UNCHANGED <<files, stored>>
  /\ UNCHANGED runVars
  /\ RecordCheckpoint

\* line 1330 and 1339-1343: saveData writes the settings, or throws
SaveCheckpoint(c) ==
  /\ call[c].pc = "save"
  /\ \E ok \in Responses :
       /\ env' = IF ok THEN env ELSE env + 1
       /\ IF ok
          THEN /\ stored' = settings
               /\ call' = [call EXCEPT ![c].pc = "done"]
               /\ syncInProgress' = FALSE
          ELSE /\ Fail(c, "transport")
               /\ UNCHANGED stored
  /\ UNCHANGED <<files, now, commits, settings>>
  /\ UNCHANGED runVars
  /\ RecordCheckpoint

\* saveSettings as the settings tab calls it when the user changes a setting
\* (src/src/settings.ts): the settings in memory are written
SaveSettingsFromTab ==
  /\ stored # settings
  /\ stored' = settings
  /\ UNCHANGED <<files, now, commits, settings, syncInProgress, call, env>>
  /\ UNCHANGED runVars
  /\ RecordCheckpoint

(***************************************************************************)
(* The environment: the user edits the vault, another client pushes.       *)
(***************************************************************************)
UserWrite(path, data) ==
  /\ env < MaxEnv
  /\ now <= MaxClock
  /\ files' = WithFile(files, path, File(data, now))
  /\ now' = now + 1
  /\ env' = env + 1
  /\ call' = [c \in Calls |->
                IF call[c].pc \in AfterScanPcs
                THEN [call[c] EXCEPT !.editedDuring = @ \cup {<<path, now>>}]
                ELSE call[c]]
  /\ UNCHANGED <<commits, settings, stored, syncInProgress>>
  /\ UNCHANGED runVars
  /\ RecordCheckpoint

UserDelete(path) ==
  /\ env < MaxEnv
  /\ path \in DOMAIN files
  /\ files' = WithoutFile(files, path)
  /\ env' = env + 1
  /\ UNCHANGED <<now, commits, settings, stored, syncInProgress, call>>
  /\ UNCHANGED runVars
  /\ RecordCheckpoint

RemotePush(path, data) ==
  /\ env < MaxEnv
  /\ Len(commits) < MaxCommits
  /\ commits' = Append(commits, WithFile(HeadTree, path, data))
  /\ env' = env + 1
  /\ UNCHANGED <<files, now, settings, stored, syncInProgress, call>>
  /\ UNCHANGED runVars
  /\ RecordCheckpoint

RemoteDelete(path) ==
  /\ env < MaxEnv
  /\ Len(commits) < MaxCommits
  /\ path \in DOMAIN HeadTree
  /\ commits' = Append(commits, WithoutFile(HeadTree, path))
  /\ env' = env + 1
  /\ UNCHANGED <<files, now, settings, stored, syncInProgress, call>>
  /\ UNCHANGED runVars
  /\ RecordCheckpoint

Next ==
  \/ \E c \in Calls, strategy \in Strategies : checkout(c, strategy)
  \/ \E c \in Calls : MerkleDiffStep(c)
  \/ \E c \in Calls : ScanAndResolve(c)
  \/ \E c \in Calls, path \in Paths : DownloadFetch(c, path)
  \/ \E c \in Calls, path \in Paths : DownloadWrite(c, path)
  \/ \E c \in Calls, path \in Paths : UploadStat(c, path)
  \/ \E c \in Calls, path \in Paths : UploadRead(c, path)
  \/ \E c \in Calls, path \in Paths : RemoveStep(c, path)
  \/ \E c \in Calls, path \in Paths : ConflictStat(c, path)
  \/ \E c \in Calls, path \in Paths : ConflictRead(c, path)
  \/ \E c \in Calls, path \in Paths : ConflictBase(c, path)
  \/ \E c \in Calls, path \in Paths : ConflictRef(c, path)
  \/ \E c \in Calls, path \in Paths : ConflictWrite(c, path)
  \/ \E c \in Calls : GetTargetBranch(c)
  \/ \E c \in Calls : CreateCommit(c)
  \/ \E c \in Calls : SaveCheckpoint(c)
  \/ SaveSettingsFromTab
  \/ \E path \in Paths, data \in LocalData : UserWrite(path, data)
  \/ \E path \in Paths : UserDelete(path)
  \/ \E path \in Paths, data \in RemoteData : RemotePush(path, data)
  \/ \E path \in Paths : RemoteDelete(path)

Spec == Init /\ [][Next]_vars

\* call c is inside checkout with an awaited operation outstanding
PassPending(c) == call[c].pc \in ActivePcs

\* the clock or the history of the branch has reached the bound of the
\* model, where the steps that write a file or make a commit wait
AtBounds == now >= MaxClock \/ Len(commits) >= MaxCommits

\* an operation awaited by call c settles: the pass or one of its tasks moves
PassStep(c) ==
  \/ call'[c].pc # call[c].pc
  \/ \E k \in DOMAIN call[c].tasks :
       k \in DOMAIN call'[c].tasks /\ call'[c].tasks[k].pc # call[c].tasks[k].pc

\* weak fairness of the steps of call c, with the enabling condition of
\* WF_vars(PassStep(c)) written out as a state predicate: a pass inside
\* checkout always has an operation that can settle, below the bounds
PassFair(c) ==
  \/ []<>(~PassPending(c) \/ AtBounds)
  \/ []<><<PassStep(c)>>_vars

\* the requests that end a pass: the read of the branch head before the
\* commit (line 1313) and saveSettings (line 1330)
EndOfPass == \E c \in Calls : GetTargetBranch(c) \/ SaveCheckpoint(c)

\* the vaults of Init that have a checkpoint: in step with the branch, or
\* with a edited on both sides since
LiveInit == Init /\ files \in {SyncedVault, EditedVault}

\* the pass under the condition that every awaited operation settles
LiveSpec ==
  LiveInit /\ [][Next]_vars /\ WF_vars(EndOfPass) /\ \A c \in Calls : PassFair(c)

TypeOK ==
  /\ syncInProgress \in BOOLEAN
  /\ now \in 1..(MaxClock + 1)
  /\ Len(commits) \in 1..MaxCommits
  /\ env \in 0..MaxEnv
  /\ \A c \in Calls : call[c].pc \in ActivePcs \cup {"idle", "rejected", "done", "failed"}
(***************************************************************************)
(* A run of MerkleTreeBuilder.buildTree and MerkleDiff.findDifferences on  *)
(* their own (src/src/tree.ts), as getMerkleDiff calls them: two file      *)
(* lists with a hash per file, the two trees, then the differences.  A     *)
(* file list is what a vault or a git tree can hold: the paths are         *)
(* distinct and no path is a directory of another path of the same list.   *)
(* The left list comes in any order, the right list in path order.         *)
(***************************************************************************)
\* number of files in a list
MaxFiles == 2
\* number of segments in a path
MaxDepth == 2

Names == {1, 2}

Contents == {<<1>>, <<2>>}

RECURSIVE PathsOfDepth(_)
PathsOfDepth(d) ==
  IF d = 1 THEN {<<n>> : n \in Names}
  ELSE {Append(path, n) : path \in PathsOfDepth(d - 1), n \in Names}

TreePaths == UNION {PathsOfDepth(d) : d \in 1..MaxDepth}

\* dir is a directory above path
IsAbove(dir, path) == Len(dir) < Len(path) /\ SubSeq(path, 1, Len(dir)) = dir

IsFileList(s) ==
  /\ \A i, j \in 1..Len(s) : i # j => s[i] # s[j]
  /\ \A i, j \in 1..Len(s) : ~IsAbove(s[i], s[j])

FileLists == {s \in UNION {[1..n -> TreePaths] : n \in 0..MaxFiles} : IsFileList(s)}

SortedFileLists == {s \in FileLists : s = SetToSeq(Range(s))}

\* the functions getHashFunc can be on a list: a git blob sha per file
HashFuncs(s) == [Range(s) -> {gitBlobSha1Hex(data) : data \in Contents}]

\* the plugin as constructed, no pass running
PassAtRest ==
  /\ files = FreshVault
  /\ commits = <<FirstTree>>
  /\ settings = NoCheckpoint
  /\ stored = NoCheckpoint
  /\ now = 2
  /\ syncInProgress = FALSE
  /\ call = [c \in Calls |-> IdleFrame]
  /\ env = 0
  /\ vaultAtCheckpoint = {}

TreeInit ==
  /\ PassAtRest
  /\ mergeRun = NoMergeRun
  /\ buildRun = NoBuildRun
  /\ \E leftFiles \in FileLists, rightFiles \in SortedFileLists :
       \E leftHash \in HashFuncs(leftFiles), rightHash \in HashFuncs(rightFiles) :
         treeRun = [pc |-> "files",
                    leftFiles |-> leftFiles, leftHash |-> leftHash,
                    rightFiles |-> rightFiles, rightHash |-> rightHash,
                    left |-> DirNode(<<>>), right |-> DirNode(<<>>),
                    differences |-> NoDifferences]

\* getLocalTree and getRemoteTree: buildTree on each list
BuildTrees ==
  /\ treeRun.pc = "files"
  /\ treeRun' = [treeRun EXCEPT
                   !.pc = "trees",
                   !.left = buildTree(treeRun.leftFiles, treeRun.leftHash),
                   !.right = buildTree(treeRun.rightFiles, treeRun.rightHash)]
  /\ UNCHANGED <<passVars, mergeRun, buildRun>>

\* MerkleDiff.findDifferences(localTree, remoteTree)
FindDifferences ==
  /\ treeRun.pc = "trees"
  /\ treeRun' = [treeRun EXCEPT
                   !.pc = "diff",
                   !.differences = findDifferences(treeRun.left, treeRun.right)]
  /\ UNCHANGED <<passVars, mergeRun, buildRun>>

TreeNext ==
  \/ BuildTrees
  \/ FindDifferences

TreeSpec == TreeInit /\ [][TreeNext]_vars


(***************************************************************************)
(* A run of threeWayMerge on its own (src/unnamed/part_002): three texts,  *)
(* then the result.  The ancestor is a text of a's and b's, the two sides  *)
(* are texts of a, b, x and y.  The edits of the two sides are kept in the *)
(* state.                                                                  *)
(***************************************************************************)
\* number of characters of a text
MaxLen == 2

BaseChars == {1, 2}

Chars == {1, 2, 3, 4}

TextsOver(chars) == UNION {[1..n -> chars] : n \in 0..MaxLen}

\* the history of a walk that has not begun
NoTrace == [cursor |-> <<0>>, emitted |-> <<>>, returned |-> FALSE]

MergeInit ==
  /\ PassAtRest
  /\ treeRun = NoTreeRun
  /\ buildRun = NoBuildRun
  /\ \E base \in TextsOver(BaseChars), ours \in TextsOver(Chars), theirs \in TextsOver(Chars) :
       mergeRun = [pc |-> "texts", base |-> base, ours |-> ours, theirs |-> theirs,
                   ourEdits |-> <<>>, theirEdits |-> <<>>, merged |-> MergeNull,
                   swapped |-> MergeNull, trace |-> NoTrace]

\* threeWayMerge(base, ours, theirs), diffChars returning one of its scripts
\* for each side, the same script for the same two texts; swapped is what
\* the call with the two sides exchanged returns, trace the history of the walk
ThreeWayMerge ==
  /\ mergeRun.pc = "texts"
  /\ \E ourParts \in diffChars(mergeRun.base, mergeRun.ours),
        theirParts \in diffChars(mergeRun.base, mergeRun.theirs) :
       /\ mergeRun.ours = mergeRun.theirs => ourParts = theirParts
       /\ mergeRun' = [mergeRun EXCEPT
                         !.pc = "merged",
                         !.ourEdits = buildEdits(ourParts),
                         !.theirEdits = buildEdits(theirParts),
                         !.merged = threeWayMergeWith(mergeRun.base, mergeRun.ours,
                                                      mergeRun.theirs, ourParts, theirParts),
                         !.swapped = threeWayMergeWith(mergeRun.base, mergeRun.theirs,
                                                       mergeRun.ours, theirParts, ourParts),
                         !.trace = threeWayMergeTrace(mergeRun.base, mergeRun.ours,
                                                      mergeRun.theirs, ourParts, theirParts)]
  /\ UNCHANGED <<passVars, treeRun, buildRun>>

MergeNext == ThreeWayMerge

MergeSpec == MergeInit /\ [][MergeNext]_vars

(***************************************************************************)
(* A run of threeWayMerge in which the two sides can be one character      *)
(* longer than the longest ancestor, so that a side can insert inside the  *)
(* ancestor.  The two sides are texts of a, b and x.                       *)
(***************************************************************************)
GrowChars == {1, 2, 3}

GrownTexts == UNION {[1..n -> GrowChars] : n \in 0..(MaxLen + 1)}

MergeGrowInit ==
  /\ PassAtRest
  /\ treeRun = NoTreeRun
  /\ buildRun = NoBuildRun
  /\ \E base \in TextsOver(BaseChars), ours \in GrownTexts, theirs \in GrownTexts :
       mergeRun = [pc |-> "texts", base |-> base, ours |-> ours, theirs |-> theirs,
                   ourEdits |-> <<>>, theirEdits |-> <<>>, merged |-> MergeNull,
                   swapped |-> MergeNull, trace |-> NoTrace]

MergeGrowSpec == MergeGrowInit /\ [][MergeNext]_vars

(***************************************************************************)
(* A run of buildTree on its own, step by step (src/src/tree.ts 74-127):   *)
(* the insertion of the paths, then the hashing pass, in which the hashes  *)
(* of the files arrive in any order and a directory goes on when the       *)
(* Promise.all of its children has resolved.  The list is any list of      *)
(* distinct paths: a path may be a directory of another path of the list.  *)
(* A node of the tree is addressed by its position, the list of the child  *)
(* indices that lead to it from the root.                                  *)
(***************************************************************************)
DistinctLists ==
  {s \in UNION {[1..n -> TreePaths] : n \in 0..MaxFiles} :
     \A i, j \in 1..Len(s) : i # j => s[i] # s[j]}

RECURSIVE NodeAt(_, _)
NodeAt(node, pos) ==
  IF pos = <<>> THEN node ELSE NodeAt(node.children[Head(pos)], Tail(pos))

RECURSIVE Positions(_)
Positions(node) ==
  {<<>>} \cup UNION {{<<i>> \o pos : pos \in Positions(node.children[i])} :
                       i \in 1..Len(node.children)}

\* every position a tree of the bounds can have: a path inserts at most one
\* child into a node
AllPositions == UNION {[1..n -> 1..MaxFiles] : n \in 0..MaxDepth}

\* node.hash = hash for the node at pos
RECURSIVE WithHash(_, _, _)
WithHash(node, pos, hash) ==
  IF pos = <<>> THEN [node EXCEPT !.hash = hash]
  ELSE [node EXCEPT !.children[Head(pos)] = WithHash(@, Tail(pos), hash)]

\* line 119 in every directory: the calls of calcHashRecursive run up to
\* their first await when the pass starts, so every list of children is
\* sorted before a hash arrives
RECURSIVE SortAll(_)
SortAll(node) ==
  IF node.leaf THEN node
  ELSE LET sorted == SortByPath(node.children)
       IN [node EXCEPT !.children = [i \in 1..Len(sorted) |-> SortAll(sorted[i])]]

\* the leaves for which line 116 calls getHashFunc
HashCalls(tree) ==
  {pos \in Positions(tree) : NodeAt(tree, pos).leaf /\ Len(NodeAt(tree, pos).hash) = 0}

\* a Promise.all that resolves before the children have their hashes
childrenSettledNotAwaited(node) == TRUE

\* line 120: the Promise.all of the children of node has resolved
childrenSettled(node) == \A i \in 1..Len(node.children) : Len(node.children[i].hash) # 0

BuildInit ==
  /\ PassAtRest
  /\ treeRun = NoTreeRun
  /\ mergeRun = NoMergeRun
  /\ \E list \in DistinctLists :
       \E getHashFunc \in HashFuncs(list) :
         buildRun = [pc |-> "files", files |-> list, getHashFunc |-> getHashFunc,
                     tree |-> DirNode(<<>>), invoked |-> [path \in TreePaths |-> 0]]

\* lines 78-111: the sort by depth and the insertion of every path
AppendChildren ==
  /\ buildRun.pc = "files"
  /\ buildRun' = [buildRun EXCEPT
                    !.pc = "built",
                    !.tree = AppendAll(SortByDepth(buildRun.files), DirNode(<<>>))]
  /\ UNCHANGED <<passVars, treeRun, mergeRun>>

\* line 124: calcHashRecursive(tree) up to its awaits: the children of every
\* directory are sorted and getHashFunc is called for every file node
StartHashing ==
  /\ buildRun.pc = "built"
  /\ LET tree == SortAll(buildRun.tree)
     IN buildRun' = [buildRun EXCEPT
                       !.pc = "hashing",
                       !.tree = tree,
                       !.invoked = [path \in TreePaths |->
                                      Cardinality({pos \in HashCalls(tree) :
                                                     NodeAt(tree, pos).path = path})]]
  /\ UNCHANGED <<passVars, treeRun, mergeRun>>

\* line 116: getHashFunc(node.path) resolves and the hash is assigned
FileHashed(pos) ==
  /\ buildRun.pc = "hashing"
  /\ pos \in HashCalls(buildRun.tree)
  /\ buildRun' = [buildRun EXCEPT
                    !.tree = WithHash(@, pos, buildRun.getHashFunc[NodeAt(@, pos).path])]
  /\ UNCHANGED <<passVars, treeRun, mergeRun>>

\* lines 120-121: Promise.all of the children has resolved, calcDirHash
DirHashed(pos) ==
  /\ buildRun.pc = "hashing"
  /\ pos \in Positions(buildRun.tree)
  /\ ~NodeAt(buildRun.tree, pos).leaf
  /\ Len(NodeAt(buildRun.tree, pos).hash) = 0
  /\ childrenSettled(NodeAt(buildRun.tree, pos))
  /\ buildRun' = [buildRun EXCEPT
                    !.tree = WithHash(@, pos, calcDirHash(NodeAt(@, pos)))]
  /\ UNCHANGED <<passVars, treeRun, mergeRun>>

\* lines 124-126: calcHashRecursive(tree) has resolved, buildTree returns
ReturnTree ==
  /\ buildRun.pc = "hashing"
  /\ Len(buildRun.tree.hash) # 0
  /\ buildRun' = [buildRun EXCEPT !.pc = "returned"]
  /\ UNCHANGED <<passVars, treeRun, mergeRun>>

BuildNext ==
  \/ AppendChildren
  \/ StartHashing
  \/ \E pos \in AllPositions : FileHashed(pos)
  \/ \E pos \in AllPositions : DirHashed(pos)
  \/ ReturnTree

BuildSpec == BuildInit /\ [][BuildNext]_vars

(***************************************************************************)
(* Properties.                                                             *)
(***************************************************************************)
\* the frames that have resolved their delta
Resolved(c) == call[c].resolved

TasksFinished(c) == \A k \in DOMAIN call[c].tasks : call[c].tasks[k].pc = "done"

\* the commit step, where the pass had something to commit, has made its commit
Committed(c) ==
  (call[c].additions # {} \/ call[c].deletions # {}) => call[c].newOid # 0

\* the positions of a pass before the checkpoint is assigned
PreSavePcs == {"diff", "scan", "tasks", "head", "commit"}

\* C1: at most one pass is active at a time; a checkout call made while
\* syncInProgress is set returns at the guard without having listed, read,
\* written, removed, committed or stored anything, and its frame never runs
\* later.
C1_SingleActivePass ==
  /\ [](Cardinality({c \in Calls : call[c].pc \in ActivePcs}) <= 1)
  /\ [](\A c \in Calls :
          call[c].pc = "rejected" =>
            /\ [call[c] EXCEPT !.pc = "idle", !.strategy = "pull"] = IdleFrame
            /\ \E d \in Calls : d < c /\ call[d].pc # "idle")
  /\ [][\A c \in Calls : call[c].pc = "rejected" => call'[c] = call[c]]_vars
  /\ [][\A c \in Calls :
          call[c].pc = "idle" /\ call'[c].pc = "rejected" =>
            /\ syncInProgress
            /\ UNCHANGED <<files, commits, settings, stored, now>>]_vars

\* C1 witness: a call was rejected while another pass is running its tasks
C1_Witness ==
  \E c, d \in Calls : call[c].pc = "rejected" /\ call[d].pc = "tasks"

\* the checkpoint a pass read when it began (lines 1140-1141)
CheckpointRead(c) ==
  [lastSyncedAt |-> call[c].lastSyncedAt, currentCommit |-> call[c].currentCommit]

\* C2: from the start of a pass until every task of the pass is done and,
\* where there was something to commit, the commit is made, the checkpoint
\* in the settings is the one the pass began with and the stored checkpoint
\* is the stored one of the start of the pass (or that of the settings); a
\* pass that fails before that point does not change the stored checkpoint;
\* the stored checkpoint only changes for a pass whose tasks are all done and
\* whose commit is made.
C2_CheckpointAfterWork ==
  /\ [](\A c \in Calls :
          call[c].pc \in PreSavePcs =>
            /\ settings = CheckpointRead(c)
            /\ stored \in {call[c].before, settings})
  /\ [][\A c \in Calls :
          call[c].pc \in PreSavePcs /\ call'[c].pc = "failed" => stored' = stored]_vars
  /\ [][stored' # stored =>
          \E c \in Calls :
            /\ call[c].pc \in {"save", "failed"}
            /\ Resolved(c)
            /\ TasksFinished(c)
            /\ Committed(c)
            /\ stored' = settings]_vars

\* C2 witness: a pass that wrote a file and made a commit has stored a new
\* checkpoint
C2_Witness ==
  \E c \in Calls :
    /\ call[c].pc = "done"
    /\ call[c].wrote # {}
    /\ call[c].newOid # 0
    /\ stored # call[c].before
    /\ stored.currentCommit = call[c].newOid

\* C3 (as claimed): the downloads, uploads, removes and conflicts of a pass
\* are pairwise disjoint under every strategy.
C3_DisjointSets ==
  \A c \in Calls :
    Resolved(c) =>
      LET f == call[c]
      IN /\ f.downloads \cap f.uploads = {}
         /\ f.downloads \cap f.removes = {}
         /\ f.downloads \cap f.conflicts = {}
         /\ f.uploads \cap f.removes = {}
         /\ f.uploads \cap f.conflicts = {}
         /\ f.removes \cap f.conflicts = {}

\* C4: in bidirectional mode a path that is in the local change log and in
\* the remote change log is in conflicts and in none of downloads, uploads
\* and removes.
C4_BothChangedIsConflict ==
  \A c \in Calls :
    Resolved(c) /\ call[c].strategy = "bidirectional" =>
      LET f == call[c]
      IN \A path \in f.localChanges.paths \cap RemotePaths(f.remoteChanges) :
           /\ path \in f.conflicts
           /\ path \notin f.downloads \cup f.uploads \cup f.removes

\* C4 witness: a bidirectional pass found a path in both change logs
C4_Witness ==
  \E c \in Calls :
    /\ Resolved(c)
    /\ call[c].strategy = "bidirectional"
    /\ call[c].localChanges.paths \cap RemotePaths(call[c].remoteChanges) # {}

\* a file of the vault that holds one version of the conflicting path: a
\* file beside the synchronised paths whose name extends the name of path
IsConflictArtifact(q, path) ==
  /\ q \notin Paths \cup {PathGit}
  /\ Len(q) >= Len(path)
  /\ SubSeq(q, 1, Len(path)) = path

\* C5 (as claimed): when the merge of a conflicting path reports a conflict,
\* the vault gets a conflict artifact for the path.
C5_ConflictMaterialized ==
  \A c \in Calls : \A k \in DOMAIN call[c].tasks :
    call[c].tasks[k].merged = "null" /\ call[c].tasks[k].pc = "done" =>
      \E q \in DOMAIN files : IsConflictArtifact(q, k[2])

\* C6 (as claimed): the failure of one task does not abort the pass.
C6_TaskFailureIsolated ==
  \A c \in Calls :
    (\E k \in DOMAIN call[c].tasks : call[c].tasks[k].pc = "failed") =>
      call[c].pc # "failed"

\* C7 (as claimed): a commit is only made on the head the pass listed the
\* remote tree at; when the head has moved since, the commit is rejected.
C7_StaleHeadRejected ==
  \A c \in Calls : call[c].newOid # 0 => call[c].newOid = call[c].seenOid + 1

\* C8 (as claimed): a pass that a transport failure aborts has written and
\* removed no file of the vault.
C8_TransportAbortIsClean ==
  \A c \in Calls :
    call[c].pc = "failed" /\ call[c].cause = "transport" =>
      call[c].wrote = {} /\ call[c].removed = {}

\* C9: under pull the downloads are the remote-only and the modified paths,
\* the removes the local-only paths, uploads and conflicts are empty, and the
\* pass collects no addition or deletion and makes no commit.
C9_PullDelta ==
  \A c \in Calls :
    Resolved(c) /\ call[c].strategy = "pull" =>
      LET f == call[c]
      IN /\ f.downloads = Range(f.diff.remoteOnly) \cup Range(f.diff.modified)
         /\ f.removes = Range(f.diff.localOnly)
         /\ f.uploads = {}
         /\ f.conflicts = {}
         /\ f.additions = {} /\ f.deletions = {}
         /\ f.newOid = 0
         /\ f.pc \notin {"head", "commit"}

\* C9 witness: a pull pass with a download and a removal has completed
C9_Witness ==
  \E c \in Calls :
    /\ call[c].strategy = "pull"
    /\ call[c].pc = "done"
    /\ Range(call[c].diff.modified) # {}
    /\ call[c].wrote # {}
    /\ call[c].removed # {}

\* C10: under push the uploads are the local-only and the modified paths,
\* downloads, removes and conflicts are empty, and the pass writes no file
\* of the vault and removes none.
C10_PushDelta ==
  \A c \in Calls :
    Resolved(c) /\ call[c].strategy = "push" =>
      LET f == call[c]
      IN /\ f.uploads = Range(f.diff.localOnly) \cup Range(f.diff.modified)
         /\ f.downloads = {}
         /\ f.removes = {}
         /\ f.conflicts = {}
         /\ f.wrote = {}
         /\ f.removed = {}
         /\ \A k \in DOMAIN f.tasks : k[1] = "upload"

\* C10 witness: a push pass has committed a local-only and a modified path
C10_Witness ==
  \E c \in Calls :
    /\ call[c].strategy = "push"
    /\ call[c].pc = "done"
    /\ call[c].newOid # 0
    /\ Range(call[c].diff.localOnly) # {}
    /\ Range(call[c].diff.modified) # {}

\* C11: in bidirectional mode with both change logs null, conflicts and
\* removes are empty, downloads are the remote-only and the modified paths
\* and uploads are the local-only and the modified paths, so that every path
\* of the diff is in a transfer set.
C11_NoCheckpointFallback ==
  \A c \in Calls :
    LET f == call[c]
    IN (/\ Resolved(c)
        /\ f.strategy = "bidirectional"
        /\ f.localChanges.null
        /\ f.remoteChanges.null) =>
         /\ f.conflicts = {}
         /\ f.removes = {}
         /\ f.downloads = Range(f.diff.remoteOnly) \cup Range(f.diff.modified)
         /\ f.uploads = Range(f.diff.localOnly) \cup Range(f.diff.modified)
         /\ Range(f.diff.localOnly) \cup Range(f.diff.modified) \cup Range(f.diff.remoteOnly)
              \subseteq f.downloads \cup f.uploads

\* C11 witness: a bidirectional pass without a checkpoint has resolved a diff
\* with a modified and a remote-only path
C11_Witness ==
  \E c \in Calls :
    /\ Resolved(c)
    /\ call[c].strategy = "bidirectional"
    /\ call[c].localChanges.null
    /\ call[c].remoteChanges.null
    /\ call[c].diff.modified # <<>>
    /\ call[c].diff.remoteOnly # <<>>

\* C12: a task that meets a file above the ceiling ends as done without a
\* write to the vault (download, conflict) and without an addition or a
\* deletion (upload), and the step does not fail the pass.
C12_OversizeSkipped ==
  [][\A c \in Calls, path \in Paths :
       LET f == call[c]
           g == call'[c]
           dl == <<"download", path>>
           ul == <<"upload", path>>
           cf == <<"conflict", path>>
           answered == env' = env
           passGoesOn == f.pc = "tasks" => g.pc # "failed"
       IN /\ (/\ TaskAt(c, dl, "fetch") /\ g.tasks[dl].pc # "fetch" /\ answered
               /\ path \in DOMAIN HeadTree /\ Len(HeadTree[path]) > maxBytes)
             => (g.tasks[dl].pc = "done" /\ files' = files /\ passGoesOn)
          /\ (/\ TaskAt(c, ul, "stat") /\ g.tasks[ul].pc # "stat"
               /\ path \in DOMAIN files /\ Len(files[path].data) > maxBytes)
             => (/\ g.tasks[ul].pc = "done"
                 /\ g.additions = f.additions /\ g.deletions = f.deletions
                 /\ passGoesOn)
          /\ (/\ TaskAt(c, cf, "stat") /\ g.tasks[cf].pc # "stat"
               /\ path \in DOMAIN files /\ Len(files[path].data) > maxBytes)
             => (g.tasks[cf].pc = "done" /\ files' = files /\ passGoesOn)
          /\ (/\ TaskAt(c, cf, "ref") /\ g.tasks[cf].pc # "ref" /\ answered
               /\ path \in DOMAIN HeadTree /\ Len(HeadTree[path]) > maxBytes)
             => (g.tasks[cf].pc = "done" /\ files' = files /\ passGoesOn)]_vars

\* C12 witness: a pass whose download met a file above the ceiling has
\* completed and stored a new checkpoint, the file not written
C12_Witness ==
  \E c \in Calls, path \in Paths :
    /\ call[c].pc = "done"
    /\ stored.lastSyncedAt > call[c].before.lastSyncedAt
    /\ <<"download", path>> \in DOMAIN call[c].tasks
    /\ call[c].tasks[<<"download", path>>].pc = "done"
    /\ path \in DOMAIN HeadTree
    /\ Len(HeadTree[path]) > maxBytes
    /\ path \notin call[c].wrote

\* the nodes of a tree
RECURSIVE Nodes(_)
Nodes(node) ==
  {node} \cup UNION {Nodes(node.children[i]) : i \in 1..Len(node.children)}

\* the paths findDifferences has put into one of its three lists
Reported(d) == Range(d.left) \cup Range(d.both) \cup Range(d.right)

Reorderings(s) == {t \in [1..Len(s) -> Range(s)] : Range(t) = Range(s)}

NoKindClash(leftFiles, rightFiles) ==
  \A p \in Range(leftFiles), q \in Range(rightFiles) : ~IsAbove(p, q) /\ ~IsAbove(q, p)

\* C19: without a path that is a file on one side and a directory on the
\* other, left is the files of the left list that are not in the right list,
\* right the files of the right list that are not in the left list, both the
\* files of both lists whose hashes differ; no path is listed twice.
C19_DiffExact ==
  (treeRun.pc = "diff" /\ NoKindClash(treeRun.leftFiles, treeRun.rightFiles)) =>
    LET d == treeRun.differences
        L == Range(treeRun.leftFiles)
        R == Range(treeRun.rightFiles)
    IN /\ Range(d.left) = L \ R
       /\ Range(d.right) = R \ L
       /\ Range(d.both) = {p \in L \cap R : treeRun.leftHash[p] # treeRun.rightHash[p]}
       /\ Len(d.left) = Cardinality(Range(d.left))
       /\ Len(d.right) = Cardinality(Range(d.right))
       /\ Len(d.both) = Cardinality(Range(d.both))
       /\ Range(d.left) \cap Range(d.right) = {}
       /\ Range(d.left) \cap Range(d.both) = {}
       /\ Range(d.right) \cap Range(d.both) = {}

\* C19 witness: a differing file, and a file with the same content at
\* different paths of the two sides, reported as left-only and as right-only
C19_Witness ==
  /\ treeRun.pc = "diff"
  /\ NoKindClash(treeRun.leftFiles, treeRun.rightFiles)
  /\ treeRun.differences.both # <<>>
  /\ \E p \in Range(treeRun.differences.left), q \in Range(treeRun.differences.right) :
       treeRun.leftHash[p] = treeRun.rightHash[q]

\* C20 (as claimed): for a file and a directory at the same path the path is
\* reported as differing and no path below it is reported.
C20_LeafPairStops ==
  treeRun.pc = "diff" =>
    \A a \in Nodes(treeRun.left), b \in Nodes(treeRun.right) :
      (a.path = b.path /\ a.hash # b.hash /\ (a.leaf \/ b.leaf)) =>
        /\ a.path \in Range(treeRun.differences.both)
        /\ \A q \in Reported(treeRun.differences) : ~IsAbove(a.path, q)

\* C16: threeWayMerge(x, y, y) = y, threeWayMerge(x, x, y) = y and
\* threeWayMerge(x, y, x) = y, none of them a conflict.
C16_MergeIdentity ==
  mergeRun.pc = "merged" =>
    /\ mergeRun.ours = mergeRun.theirs => mergeRun.merged = MergeText(mergeRun.theirs)
    /\ mergeRun.ours = mergeRun.base => mergeRun.merged = MergeText(mergeRun.theirs)
    /\ mergeRun.theirs = mergeRun.base => mergeRun.merged = MergeText(mergeRun.ours)

\* C16 witness: ours is the ancestor "ab", theirs is "xb", and "xb" was returned
C16_Witness ==
  /\ mergeRun.pc = "merged"
  /\ mergeRun.base = TextAB
  /\ mergeRun.ours = TextAB
  /\ mergeRun.theirs = TextXB
  /\ mergeRun.merged = MergeText(TextXB)

\* the edits of the two sides
OurEdits == Range(mergeRun.ourEdits)

TheirEdits == Range(mergeRun.theirEdits)

\* two edits at different places of the ancestor: the starts differ and one
\* ends at or before the start of the other
DisjointEdits(a, b) == a.start # b.start /\ (a.end <= b.start \/ b.end <= a.start)

\* the ancestor from pos on with the edits of E applied, each once, and the
\* spans between them copied
RECURSIVE ApplyEdits(_, _, _)
ApplyEdits(base, E, pos) ==
  IF E = {} THEN Slice(base, pos, Len(base))
  ELSE LET e == CHOOSE x \in E : \A y \in E : x.start <= y.start
       IN Slice(base, pos, e.start) \o e.newText \o ApplyEdits(base, E \ {e}, e.end)

\* none of the three fast paths applies
NoFastPath ==
  /\ mergeRun.ours # mergeRun.theirs
  /\ mergeRun.ours # mergeRun.base
  /\ mergeRun.theirs # mergeRun.base

\* C17: with an edit of ours and an edit of theirs at the same start that
\* differ in range or in replacement text the result is a conflict; where
\* every such pair is the same edit and all other pairs are at different
\* places, the result is the ancestor with the common edit applied once.
C17_SameAnchor ==
  (mergeRun.pc = "merged" /\ NoFastPath) =>
    /\ (\E a \in OurEdits, b \in TheirEdits : a.start = b.start /\ a # b)
         => mergeRun.merged = MergeNull
    /\ (/\ \E a \in OurEdits, b \in TheirEdits : a.start = b.start
        /\ \A a \in OurEdits, b \in TheirEdits : a = b \/ DisjointEdits(a, b))
         => mergeRun.merged = MergeText(ApplyEdits(mergeRun.base, OurEdits \cup TheirEdits, 0))

\* C17 witness: the ancestor is "ab", ours "xb", theirs "yb": both replace
\* the first character, and the result is a conflict
C17_Witness ==
  /\ mergeRun.pc = "merged"
  /\ mergeRun.base = TextAB
  /\ mergeRun.ours = TextXB
  /\ mergeRun.theirs = TextYB
  /\ mergeRun.merged = MergeNull

\* C18: when every edit of ours and every edit of theirs are at different
\* places, the result is the ancestor with the edits of both sides applied,
\* each once.
C18_DisjointEditsCompose ==
  (/\ mergeRun.pc = "merged"
   /\ \A a \in OurEdits, b \in TheirEdits : DisjointEdits(a, b)) =>
     mergeRun.merged = MergeText(ApplyEdits(mergeRun.base, OurEdits \cup TheirEdits, 0))

\* C18 witness: the ancestor is "ab", ours "xb", theirs "ay", the result "xy"
C18_Witness ==
  /\ mergeRun.pc = "merged"
  /\ mergeRun.base = TextAB
  /\ mergeRun.ours = TextXB
  /\ mergeRun.theirs = TextAY
  /\ mergeRun.ourEdits # <<>>
  /\ mergeRun.theirEdits # <<>>
  /\ mergeRun.merged = MergeText(<<3, 4>>)

DirNodes(tree) == {node \in Nodes(tree) : ~node.leaf}

\* the stepwise run returns the tree the operator buildTree gives
BuildRunIsBuildTree ==
  buildRun.pc = "returned" =>
    buildRun.tree = buildTree(buildRun.files, buildRun.getHashFunc)

\* C22 (as claimed): in the tree buildTree returns for a list of distinct
\* paths, the children of every directory are in path order and no two
\* children of a directory have the same path.
C22_ChildrenAreSet ==
  buildRun.pc = "returned" =>
    \A node \in DirNodes(buildRun.tree) :
      \A i, j \in 1..Len(node.children) :
        i < j => /\ ~SeqLess(node.children[j].path, node.children[i].path)
                 /\ node.children[i].path # node.children[j].path

\* the digest of the "childPath:childHash" strings of the children, which are
\* listed in path order, joined by "|"
DigestOfChildren(node) ==
  sha1Hex(JoinItems([i \in 1..Len(node.children) |->
                       PathString(node.children[i].path) \o <<Colon>>
                         \o node.children[i].hash]))

\* C23: in the hashing pass getHashFunc is called at most once per file
\* path; a directory gets its hash only in a state in which every child has
\* its hash; when buildTree returns, every node has a non-empty hash, a file
\* has the hash getHashFunc gives for its path, and the hash of a directory
\* is the digest of the "childPath:childHash" list of its children in path
\* order.
C23_HashingPass ==
  /\ [](\A path \in TreePaths : buildRun.invoked[path] <= 1)
  /\ [][\A pos \in AllPositions :
          (/\ pos \in Positions(buildRun.tree)
           /\ pos \in Positions(buildRun'.tree)
           /\ ~NodeAt(buildRun.tree, pos).leaf
           /\ Len(NodeAt(buildRun.tree, pos).hash) = 0
           /\ Len(NodeAt(buildRun'.tree, pos).hash) # 0) =>
             \A i \in 1..Len(NodeAt(buildRun.tree, pos).children) :
               Len(NodeAt(buildRun.tree, pos).children[i].hash) # 0]_vars
  /\ [](buildRun.pc = "returned" =>
          \A node \in Nodes(buildRun.tree) :
            /\ Len(node.hash) # 0
            /\ node.leaf => node.hash = buildRun.getHashFunc[node.path]
            /\ ~node.leaf =>
                 /\ \A i, j \in 1..Len(node.children) :
                      i < j => ~SeqLess(node.children[j].path, node.children[i].path)
                 /\ node.hash = DigestOfChildren(node))

\* C23 witness: buildTree has returned a tree with a directory below the
\* root that holds two files, each hashed by one call of getHashFunc
C23_Witness ==
  /\ buildRun.pc = "returned"
  /\ \E node \in DirNodes(buildRun.tree) :
       /\ node.path # <<>>
       /\ Len(node.children) = 2
       /\ \A i \in 1..2 : node.children[i].leaf /\ buildRun.invoked[node.children[i].path] = 1

\* the stepwise history agrees with the result of the walk
TraceIsWalk ==
  (mergeRun.pc = "merged" /\ NoFastPath) => mergeRun.trace.returned = ~mergeRun.merged.conflict

\* the indices of the ancestor that an edit of one of the sides removes
RemovedIndices ==
  UNION {{i \in 0..(Len(mergeRun.base) - 1) : e.start <= i /\ i < e.end} :
           e \in OurEdits \cup TheirEdits}

\* C24 (as claimed): when the walk of threeWayMerge returns a text, the
\* cursor never took a value below an earlier one, no index of the ancestor
\* was copied twice, and no index removed by an edit of a side was copied.
C24_CursorForward ==
  (mergeRun.pc = "merged" /\ mergeRun.trace.returned) =>
    LET cursor == mergeRun.trace.cursor
        emitted == mergeRun.trace.emitted
    IN /\ \A i, j \in 1..Len(cursor) : i < j => cursor[i] <= cursor[j]
       /\ \A i, j \in 1..Len(emitted) : i # j => emitted[i] # emitted[j]
       /\ Range(emitted) \cap RemovedIndices = {}

\* C30: threeWayMerge(base, theirs, ours) reports a conflict exactly when
\* threeWayMerge(base, ours, theirs) does, and otherwise returns the same
\* text.
C30_MergeSymmetric ==
  mergeRun.pc = "merged" =>
    /\ mergeRun.merged.conflict = mergeRun.swapped.conflict
    /\ ~mergeRun.merged.conflict => mergeRun.merged.text = mergeRun.swapped.text

\* C30 witness: the ancestor is "ab", ours "xb", theirs "abx": the walk takes
\* the edit of ours first and both orders of the sides return "xbx"
C30_Witness ==
  /\ mergeRun.pc = "merged"
  /\ mergeRun.base = TextAB
  /\ mergeRun.ours = TextXB
  /\ mergeRun.theirs = <<1, 2, 3>>
  /\ mergeRun.merged = MergeText(<<3, 2, 3>>)
  /\ mergeRun.swapped = MergeText(<<3, 2, 3>>)

\* the positions of a task that has settled
SettledTaskPcs == {"done", "failed"}

\* C25 (as claimed): when syncInProgress is cleared, every task of the pass
\* that clears it has settled, so that no task of a pass that is over writes
\* or removes a file of the vault.
C25_NoTaskOutlivesPass ==
  /\ [][syncInProgress /\ ~syncInProgress' =>
          \A c \in Calls : \A k \in DOMAIN call'[c].tasks :
            call'[c].tasks[k].pc \in SettledTaskPcs]_vars
  /\ [][\A c \in Calls :
          (call[c].pc \in {"done", "failed"} /\ call'[c] # call[c]) => files' = files]_vars

\* C26 (as claimed): a bidirectional pass adds a path to its deletions only
\* if the vault held the file when the checkpoint of the pass was assigned
\* (when the pass began, for a pass without a checkpoint) and does not hold
\* it now.
C26_DeletesOnlyLocalDeletions ==
  [][\A c \in Calls, path \in Paths :
       (/\ call[c].strategy = "bidirectional"
        /\ path \notin call[c].deletions
        /\ path \in call'[c].deletions) =>
          /\ path \in call[c].localAtCheckpoint
          /\ path \notin DOMAIN files]_vars

\* C27 (as claimed): when a pass completes, the stored currentCommit is the
\* commit the pass made or, for a pass that made none, the head of the
\* branch the pass listed the remote tree at.
C27_CheckpointCommitAdvances ==
  [][\A c \in Calls :
       (call[c].pc = "save" /\ call'[c].pc = "done") =>
         stored'.currentCommit =
           IF call[c].newOid # 0 THEN call[c].newOid ELSE call[c].seenOid]_vars

\* d is the pass that follows pass c: every call between them was rejected
NextPass(c, d) ==
  /\ c < d
  /\ call[c].pc = "done"
  /\ call[d].pc \notin {"idle", "rejected"}
  /\ \A e \in (c + 1)..(d - 1) : call[e].pc = "rejected"

\* C28 (as claimed): a file that the user wrote while a pass was between its
\* local scan and the storing of its checkpoint, and that nothing has
\* written since, is in the local change log of the next pass.
C28_EditDuringPassIsSeen ==
  [][\A c, d \in Calls :
       (NextPass(c, d) /\ call[d].pc = "scan" /\ call'[d].resolved) =>
         \A edit \in call[c].editedDuring :
           (edit[1] \in DOMAIN files /\ files[edit[1]].mtime = edit[2]) =>
             LocalContains(call'[d].localChanges, edit[1])]_vars

\* C29: if every awaited operation settles, a pass that has set
\* syncInProgress reaches the end of checkout with the flag cleared, whether
\* it completes or fails; the flag is cleared only by the step in which a
\* pass leaves checkout; a call rejected at the guard leaves the flag set
\* and takes no step afterwards.
C29_FlagEventuallyCleared ==
  /\ \A c \in Calls :
       (call[c].pc \in ActivePcs) ~>
         ((call[c].pc \in {"done", "failed"} /\ ~syncInProgress) \/ AtBounds)
  /\ [][syncInProgress /\ ~syncInProgress' =>
          \E c \in Calls : call[c].pc \in ActivePcs /\ call'[c].pc \in {"done", "failed"}]_vars
  /\ [][\A c \in Calls :
          /\ (call[c].pc = "idle" /\ call'[c].pc = "rejected") =>
               (syncInProgress /\ syncInProgress')
          /\ call[c].pc = "rejected" => call'[c] = call[c]]_vars

\* C29 witness: the first pass has failed and the flag is clear, and a call
\* made while it ran was rejected
C29_Witness ==
  /\ ~syncInProgress
  /\ call[1].pc = "failed"
  /\ \E c \in Calls : call[c].pc = "rejected"
====
